---- MODULE Spec2Model ----
(***************************************************************************)
(* A model of the two analysing tool handlers of mcp-travis                *)
(* (src/src/index.ts): travis_getBuildInsights and                         *)
(* travis_getOptimizationRecommendations, together with the upstream       *)
(* fetch helper travis() they share.                                       *)
(*                                                                         *)
(* The handler is an async function: it runs to completion between two     *)
(* awaits, so every action below is one such synchronous stretch (from     *)
(* the arrival of a response to the next request or to the return).        *)
(* The Travis service is part of the state: what it will answer to each    *)
(* request is fixed by Init, the handler only reads it.                    *)
(***************************************************************************)
EXTENDS Integers, Sequences, FiniteSets, TLC

\* JavaScript's undefined (a missing field, a missing argument).
undefined == "undefined"

(***************************************************************************)
(* Bounds of the model.                                                    *)
(***************************************************************************)
\* Longest build list of the short-list worlds (every state and branch).
MaxBuilds == 3
\* Longest block of equal builds in the block-list worlds.
MaxRun == 6
\* Most jobs of a build.
MaxJobs == 2

(***************************************************************************)
(* Sequence helpers (the Array.prototype methods the handlers use).        *)
(***************************************************************************)
\* arr.filter(pred) for a predicate given as the set of accepted elements.
RECURSIVE filter(_, _)
filter(arr, keep) ==
    IF arr = <<>> THEN <<>>
    ELSE IF Head(arr) \in keep THEN <<Head(arr)>> \o filter(Tail(arr), keep)
         ELSE filter(Tail(arr), keep)

\* arr.slice(0, n)
slice0(arr, n) == SubSeq(arr, 1, IF n < Len(arr) THEN n ELSE Len(arr))

\* Math.min
min(a, b) == IF a < b THEN a ELSE b

\* x repeated n times
RECURSIVE Repeat(_, _)
Repeat(x, n) == IF n = 0 THEN <<>> ELSE <<x>> \o Repeat(x, n - 1)

\* All sequences over S of length at most n.
SeqUpTo(S, n) == UNION {[1..k -> S] : k \in 0..n}

(***************************************************************************)
(* JavaScript numbers: IEEE-754 binary64.  A number is sign, significand   *)
(* and exponent, value = (-1)^sign * mant * 2^exp, the significand a       *)
(* natural number of exactly Precision bits kept as a sequence of limbs,   *)
(* lowest limb first (TLC's integers are 32 bits wide).                    *)
(***************************************************************************)
\* Width of the significand of a binary64 number.
Precision == 53
\* Bits of a limb, and the limb base 2^LimbBits.
LimbBits == 15
Base == 32768
\* Fraction limbs the long division produces before it rounds.
DivLimbs == 5

RECURSIVE pow2(_)
pow2(k) == IF k = 0 THEN 1 ELSE 2 * pow2(k - 1)

RECURSIVE natLimbs(_)
natLimbs(n) == IF n = 0 THEN <<>> ELSE <<n % Base>> \o natLimbs(n \div Base)

\* Without its high zero limbs.
RECURSIVE trim(_)
trim(a) ==
    IF a = <<>> THEN <<>>
    ELSE IF a[Len(a)] = 0 THEN trim(SubSeq(a, 1, Len(a) - 1)) ELSE a

RECURSIVE addL(_, _, _)
addL(a, b, carry) ==
    IF a = <<>> /\ b = <<>> THEN (IF carry = 0 THEN <<>> ELSE <<carry>>)
    ELSE LET x == IF a = <<>> THEN 0 ELSE Head(a)
             y == IF b = <<>> THEN 0 ELSE Head(b)
             s == x + y + carry
         IN  <<s % Base>> \o addL(IF a = <<>> THEN <<>> ELSE Tail(a),
                                  IF b = <<>> THEN <<>> ELSE Tail(b), s \div Base)

\* a - b for a >= b, limb by limb with a borrow.
RECURSIVE subRaw(_, _, _)
subRaw(a, b, borrow) ==
    IF a = <<>> THEN <<>>
    ELSE LET y == IF b = <<>> THEN 0 ELSE Head(b)
             s == Head(a) - y - borrow
         IN  <<IF s < 0 THEN s + Base ELSE s>>
             \o subRaw(Tail(a), IF b = <<>> THEN <<>> ELSE Tail(b),
                       IF s < 0 THEN 1 ELSE 0)

subL(a, b) == trim(subRaw(a, b, 0))

\* -1, 0, 1 as a < b, a = b, a > b (both without high zero limbs).
RECURSIVE cmpFrom(_, _, _)
cmpFrom(a, b, i) ==
    IF i = 0 THEN 0
    ELSE IF a[i] < b[i] THEN -1
    ELSE IF a[i] > b[i] THEN 1
    ELSE cmpFrom(a, b, i - 1)

cmpL(a, b) ==
    IF Len(a) < Len(b) THEN -1
    ELSE IF Len(a) > Len(b) THEN 1
    ELSE cmpFrom(a, b, Len(a))

\* a * k + carry for a one-limb k.
RECURSIVE mulSmall(_, _, _)
mulSmall(a, k, carry) ==
    IF a = <<>> THEN (IF carry = 0 THEN <<>> ELSE <<carry>>)
    ELSE LET t == Head(a) * k + carry
         IN  <<t % Base>> \o mulSmall(Tail(a), k, t \div Base)

RECURSIVE mulL(_, _)
mulL(a, b) ==
    IF b = <<>> \/ a = <<>> THEN <<>>
    ELSE LET rest == mulL(a, Tail(b))
         IN  trim(addL(mulSmall(a, Head(b), 0),
                       IF rest = <<>> THEN <<>> ELSE <<0>> \o rest, 0))

\* Quotient and remainder of a by a one-limb k > 0.
RECURSIVE divSmall(_, _)
divSmall(a, k) ==
    IF a = <<>> THEN [q |-> <<>>, r |-> 0]
    ELSE LET hi == divSmall(Tail(a), k)
             t  == hi.r * Base + Head(a)
         IN  [q |-> <<t \div k>> \o hi.q, r |-> t % k]

RECURSIVE bitLenSmall(_)
bitLenSmall(n) == IF n = 0 THEN 0 ELSE 1 + bitLenSmall(n \div 2)

bitLen(a) == IF a = <<>> THEN 0
             ELSE LimbBits * (Len(a) - 1) + bitLenSmall(a[Len(a)])

\* a * 2^k
shl(a, k) ==
    IF a = <<>> THEN <<>>
    ELSE Repeat(0, k \div LimbBits) \o mulSmall(a, pow2(k % LimbBits), 0)

\* a div 2^k and a mod 2^k
shr(a, k) ==
    LET w    == k \div LimbBits
        low  == SubSeq(a, 1, IF w < Len(a) THEN w ELSE Len(a))
        high == SubSeq(a, w + 1, Len(a))
        d    == divSmall(high, pow2(k % LimbBits))
    IN  [q |-> trim(d.q),
         r |-> trim(low \o Repeat(0, w - Len(low)) \o <<d.r>>)]

fzero == [sign |-> 0, mant |-> <<>>, exp |-> 0]

\* mant * 2^exp (more exactly: a little above it when sticky) rounded to
\* Precision bits, to nearest, ties to even.
fround(sign, mant, exp, sticky) ==
    IF mant = <<>> THEN fzero
    ELSE LET L == bitLen(mant) IN
      IF L <= Precision
      THEN [sign |-> sign, mant |-> shl(mant, Precision - L),
            exp |-> exp - (Precision - L)]
      ELSE LET drop == L - Precision
               s    == shr(mant, drop)
               c    == cmpL(s.r, shl(<<1>>, drop - 1))
               odd  == Head(s.q) % 2 = 1
               up   == c > 0 \/ (c = 0 /\ (sticky \/ odd))
               m2   == IF up THEN addL(s.q, <<1>>, 0) ELSE s.q
           IN  IF bitLen(m2) > Precision
               THEN [sign |-> sign, mant |-> shr(m2, 1).q, exp |-> exp + drop + 1]
               ELSE [sign |-> sign, mant |-> m2, exp |-> exp + drop]

\* An integer as a number.
fromInt(n) == IF n < 0 THEN fround(1, natLimbs(-n), 0, FALSE)
              ELSE fround(0, natLimbs(n), 0, FALSE)

\* The fraction r/d (r < d) to k limbs, lowest limb first, and the remainder.
RECURSIVE fracLimbs(_, _, _, _)
fracLimbs(r, d, k, acc) ==
    IF k = 0 THEN [limbs |-> acc, rem |-> r]
    ELSE LET t == r * Base
         IN  fracLimbs(t % d, d, k - 1, <<t \div d>> \o acc)

\* n / d for integers n >= 0 and 0 < d < 2^11.
fdivNat(n, d) ==
    LET f == fracLimbs(n % d, d, DivLimbs, <<>>)
    IN  fround(0, trim(f.limbs \o natLimbs(n \div d)), -(DivLimbs * LimbBits),
               f.rem # 0)

fmul(x, y) ==
    IF x.mant = <<>> \/ y.mant = <<>> THEN fzero
    ELSE fround((x.sign + y.sign) % 2, mulL(x.mant, y.mant), x.exp + y.exp, FALSE)

fneg(x) == IF x.mant = <<>> THEN x ELSE [x EXCEPT !.sign = 1 - x.sign]

fadd(x, y) ==
    IF x.mant = <<>> THEN y
    ELSE IF y.mant = <<>> THEN x
    ELSE LET e  == IF x.exp < y.exp THEN x.exp ELSE y.exp
             a  == shl(x.mant, x.exp - e)
             b  == shl(y.mant, y.exp - e)
             c  == cmpL(a, b)
         IN  IF x.sign = y.sign THEN fround(x.sign, addL(a, b, 0), e, FALSE)
             ELSE IF c = 0 THEN fzero
             ELSE IF c > 0 THEN fround(x.sign, subL(a, b), e, FALSE)
             ELSE fround(y.sign, subL(b, a), e, FALSE)

fsub(x, y) == fadd(x, fneg(y))

\* x < y
flt(x, y) == LET d == fsub(x, y) IN d.mant # <<>> /\ d.sign = 1
fgt(x, y) == flt(y, x)
fge(x, y) == ~flt(x, y)

\* x <= y, and a number as a whole number of tenths: Number.prototype.toFixed(1)
\* ("let n be an integer for which n / 10 - x is as close to zero as
\* possible; if there are two such n, pick the larger"), for x >= 0.
fle(x, y) == ~flt(y, x)

RECURSIVE limbsNat(_)
limbsNat(a) == IF a = <<>> THEN 0 ELSE Head(a) + Base * limbsNat(Tail(a))

toFixed1(x) ==
    IF x.mant = <<>> THEN 0
    ELSE IF x.exp >= 0 THEN limbsNat(shl(mulSmall(x.mant, 10, 0), x.exp))
    ELSE limbsNat(shr(addL(mulSmall(x.mant, 20, 0), shl(<<1>>, -x.exp), 0),
                      1 - x.exp).q)

\* x / k, x % k and Math.floor(x) for a number x >= 0 and an integer k,
\* 0 < k < Base: the quotient rounded, the remainder and the floor exact.
fdivInt(x, k) ==
    IF x.mant = <<>> THEN fzero
    ELSE LET d == divSmall(Repeat(0, DivLimbs) \o x.mant, k)
         IN  fround(x.sign, trim(d.q), x.exp - DivLimbs * LimbBits, d.r # 0)

fmod(x, k) ==
    IF x.mant = <<>> THEN fzero
    ELSE IF x.exp >= 0 THEN fromInt(divSmall(shl(x.mant, x.exp), k).r)
    ELSE LET s == shr(x.mant, -x.exp)
         IN  fround(0, trim(addL(shl(natLimbs(divSmall(s.q, k).r), -x.exp), s.r, 0)),
                    x.exp, FALSE)

ffloor(x) ==
    IF x.mant = <<>> THEN 0
    ELSE IF x.exp >= 0 THEN limbsNat(shl(x.mant, x.exp))
    ELSE limbsNat(shr(x.mant, -x.exp).q)

(***************************************************************************)
(* travis_getBuildInsights (index.ts 683-854).                             *)
(* A build record is what the handler reads of it: state, branch (the      *)
(* branch's name) and duration (<<>> when missing, <<n>> otherwise).       *)
(***************************************************************************)
\* Default and largest number of builds requested (line 685).
DefaultLimit == 50
MaxLimit == 100
\* Length of the "recent" window (line 754) and of the failure list (760).
RecentWindow == 10
MaxRecentFailures == 5
\* Branches shown in the breakdown (line 805).
TopBranches == 5
\* Thresholds of the trend label (780, 782) and of the decline warning (841).
TrendDelta == 5
DeclineDelta == 10
\* Thresholds of the stability line (831-835).
Excellent == 90
Good == 75
Moderate == 50

\* const limit = Math.min((args?.limit as number) || 50, 100)   (line 685)
limitOf(args) ==
    min(IF args.limit = <<>> \/ args.limit[1] = 0 THEN DefaultLimit
        ELSE args.limit[1], MaxLimit)

\* const state = build.state || 'unknown'   (line 722)
stateOfCanceledAsFailed(build) ==
    IF build.state = undefined THEN "unknown"
    ELSE IF build.state = "canceled" THEN "failed" ELSE build.state

stateOf(build) == IF build.state = undefined THEN "unknown" ELSE build.state

\* const branchName = build.branch?.name || 'unknown'   (line 736)
branchNameOf(build) ==
    IF build.branch = undefined THEN "unknown" ELSE build.branch

\* A variant of line 730 that takes a duration of 0 as well.
hasDurationOrZero(build) == build.duration # <<>>

\* build.duration && build.duration > 0   (line 730)
hasDuration(build) == build.duration # <<>> /\ build.duration[1] > 0

\* The counters before the loop (lines 710-719).
loopStart ==
    [passedBuilds |-> 0, failedBuilds |-> 0, canceledBuilds |-> 0,
     erroredBuilds |-> 0, totalDuration |-> 0, buildsWithDuration |-> 0,
     durations |-> <<>>, stateCount |-> <<>>, branchKeys |-> <<>>,
     branchStats |-> <<>>]

\* One entry of branchStats after a build in `state` (lines 737-742).
branchEntry(old, state) ==
    [passed |-> old.passed + (IF state = "passed" THEN 1 ELSE 0),
     failed |-> old.failed + (IF state = "failed" THEN 1 ELSE 0),
     total  |-> old.total + 1]

\* The properties the object literal {} of line 719 inherits from
\* Object.prototype.  branchStats[branchName] reads them as it reads its own:
\* for such a name !branchStats[branchName] is false (line 737), no entry is
\* created, and the increments of lines 740-742 fall on the inherited object.
ObjectPrototype ==
    {"constructor", "toString", "toLocaleString", "valueOf", "hasOwnProperty",
     "isPrototypeOf", "propertyIsEnumerable", "__proto__"}

\* One pass of the loop over the builds (lines 721-743).  branchKeys is
\* the insertion order of branchStats (the order of Object.entries).
loopBody(acc, build) ==
    LET state      == stateOf(build)
        branchName == branchNameOf(build)
        inherited  == branchName \in ObjectPrototype
        known      == branchName \in DOMAIN acc.branchStats
        old        == IF known THEN acc.branchStats[branchName]
                      ELSE [passed |-> 0, failed |-> 0, total |-> 0]
        seen       == IF state \in DOMAIN acc.stateCount
                      THEN acc.stateCount[state] ELSE 0
        dur        == hasDuration(build)
    IN  [passedBuilds   |-> acc.passedBuilds + (IF state = "passed" THEN 1 ELSE 0),
         failedBuilds   |-> acc.failedBuilds + (IF state = "failed" THEN 1 ELSE 0),
         canceledBuilds |-> acc.canceledBuilds + (IF state = "canceled" THEN 1 ELSE 0),
         erroredBuilds  |-> acc.erroredBuilds + (IF state = "errored" THEN 1 ELSE 0),
         totalDuration  |-> acc.totalDuration + (IF dur THEN build.duration[1] ELSE 0),
         buildsWithDuration |-> acc.buildsWithDuration + (IF dur THEN 1 ELSE 0),
         durations      |-> IF dur THEN Append(acc.durations, build.duration[1])
                            ELSE acc.durations,
         stateCount     |-> (state :> (seen + 1)) @@ acc.stateCount,
         branchKeys     |-> IF known \/ inherited THEN acc.branchKeys
                            ELSE Append(acc.branchKeys, branchName),
         branchStats    |-> IF inherited THEN acc.branchStats
                            ELSE (branchName :> branchEntry(old, state))
                                 @@ acc.branchStats]

RECURSIVE forBuilds(_, _)
forBuilds(acc, builds) ==
    IF builds = <<>> THEN acc
    ELSE forBuilds(loopBody(acc, Head(builds)), Tail(builds))

\* durations.sort((a, b) => a - b)   (line 745)
RECURSIVE insertAsc(_, _)
insertAsc(x, sorted) ==
    IF sorted = <<>> THEN <<x>>
    ELSE IF x < Head(sorted) THEN <<x>> \o sorted
    ELSE <<Head(sorted)>> \o insertAsc(x, Tail(sorted))

RECURSIVE sortAsc(_)
sortAsc(arr) ==
    IF arr = <<>> THEN <<>>
    ELSE insertAsc(arr[Len(arr)], sortAsc(SubSeq(arr, 1, Len(arr) - 1)))

\* A variant of line 751 that leaves the errored builds out.
completedBuildsWithoutErrored(passedBuilds, failedBuilds, erroredBuilds) ==
    passedBuilds + failedBuilds

\* const completedBuilds = passedBuilds + failedBuilds + erroredBuilds  (751)
completedBuilds(passedBuilds, failedBuilds, erroredBuilds) ==
    passedBuilds + failedBuilds + erroredBuilds

\* completed > 0 ? (passed / completed) * 100 : 0   (lines 752, 758, 808)
percentage(passed, completed) ==
    IF completed > 0 THEN fmul(fdivNat(passed, completed), fromInt(100))
    ELSE fzero

\* The states of a list of builds, as b.state reads them.
states(builds) == [i \in 1..Len(builds) |-> builds[i].state]

\* const recentBuilds = builds.slice(0, Math.min(10, builds.length))  (754)
recentBuilds(builds) == slice0(builds, min(RecentWindow, Len(builds)))

\* recentPassed + recentFailed   (lines 755-757)
recentCompletedBuilds(recent) ==
    Len(filter(states(recent), {"passed"})) + Len(filter(states(recent), {"failed"}))

\* (recentPassed / recentCompletedBuilds) * 100, or 0   (lines 755-758)
recentPassRate(builds) ==
    percentage(Len(filter(states(recentBuilds(builds)), {"passed"})),
               recentCompletedBuilds(recentBuilds(builds)))

\* A variant that calls the trend declining only beyond both thresholds.
trendLabelWide(recent, overall) ==
    IF fgt(recent, fadd(overall, fromInt(TrendDelta))) THEN "Improving"
    ELSE IF flt(recent, fsub(overall, fromInt(TrendDelta + DeclineDelta))) THEN "Declining"
    ELSE "Stable"

\* The label after the recent pass rate (lines 780-786).
trendLabel(recent, overall) ==
    IF fgt(recent, fadd(overall, fromInt(TrendDelta))) THEN "Improving"
    ELSE IF flt(recent, fsub(overall, fromInt(TrendDelta))) THEN "Declining"
    ELSE "Stable"

\* Object.entries(branchStats).sort(([, a], [, b]) => b.total - a.total)
\* (lines 803-804): a stable sort, descending by total.
RECURSIVE insertByTotal(_, _)
insertByTotal(x, sorted) ==
    IF sorted = <<>> THEN <<x>>
    ELSE IF x.stats.total > Head(sorted).stats.total THEN <<x>> \o sorted
    ELSE <<Head(sorted)>> \o insertByTotal(x, Tail(sorted))

RECURSIVE sortByTotal(_)
sortByTotal(entries) ==
    IF entries = <<>> THEN <<>>
    ELSE insertByTotal(entries[Len(entries)],
                       sortByTotal(SubSeq(entries, 1, Len(entries) - 1)))

\* const branchPassRate = stats.total > 0 ? (stats.passed / stats.total) * 100 : 0
\* (line 808)
branchPassRate(stats) == percentage(stats.passed, stats.total)

\* The lines of the branch breakdown (lines 799-812); <<>> when the section
\* is left out.
branchBreakdown(branch, acc) ==
    IF branch = undefined /\ Len(acc.branchKeys) > 1
    THEN LET entries == [i \in 1..Len(acc.branchKeys) |->
                           [branchName |-> acc.branchKeys[i],
                            stats |-> acc.branchStats[acc.branchKeys[i]]]]
             sortedBranches == slice0(sortByTotal(entries), TopBranches)
         IN  [i \in 1..Len(sortedBranches) |->
                [branchName |-> sortedBranches[i].branchName,
                 total      |-> sortedBranches[i].stats.total,
                 passRate   |-> toFixed1(branchPassRate(sortedBranches[i].stats))]]
    ELSE <<>>

\* builds.filter(b => b.state === 'failed' || b.state === 'errored').slice(0, 5)
\* (line 760), as positions in the build list.
RECURSIVE failurePositions(_, _)
failurePositions(builds, i) ==
    IF i > Len(builds) THEN <<>>
    ELSE IF builds[i].state \in {"failed", "errored"}
         THEN <<i>> \o failurePositions(builds, i + 1)
         ELSE failurePositions(builds, i + 1)

\* A variant of line 760 that keeps the first five builds before filtering.
recentFailuresOfFirstFive(builds) ==
    failurePositions(slice0(builds, MaxRecentFailures), 1)

recentFailures(builds) == slice0(failurePositions(builds, 1), MaxRecentFailures)

\* A variant of line 831 whose first threshold is strict.
stabilityLineStrict(passRate) ==
    IF fgt(passRate, fromInt(Excellent)) THEN "excellent"
    ELSE IF fge(passRate, fromInt(Good)) THEN "good"
    ELSE IF fge(passRate, fromInt(Moderate)) THEN "moderate"
    ELSE "low"

\* The stability line (lines 831-839).
stabilityLine(passRate) ==
    IF fge(passRate, fromInt(Excellent)) THEN "excellent"
    ELSE IF fge(passRate, fromInt(Good)) THEN "good"
    ELSE IF fge(passRate, fromInt(Moderate)) THEN "moderate"
    ELSE "low"

\* The warnings after the stability line (lines 841-851).
warnings(recent, passRate, maxDuration, avgDuration, failedBuilds, passedBuilds) ==
    (IF flt(recent, fsub(passRate, fromInt(DeclineDelta)))
     THEN {"recent builds failing more"} ELSE {})
    \cup
    (IF fgt(fromInt(maxDuration), fmul(avgDuration, fdivNat(3, 2)))
     THEN {"some builds significantly slower"} ELSE {})
    \cup
    (IF failedBuilds > passedBuilds THEN {"more failures than passes"} ELSE {})

\* One line of the duration section (lines 792-795):
\* `${Math.floor(d / 60)}m ${d % 60}s` for a duration d, a number.
durationLine(label, d) ==
    [label |-> label, duration |-> d,
     minutes |-> ffloor(fdivInt(d, 60)), seconds |-> fmod(d, 60)]

\* The duration section (lines 789-797); <<>> when it is left out.
durationLines(buildsWithDuration, avgDuration, medianDuration, minDuration, maxDuration) ==
    IF buildsWithDuration > 0
    THEN <<durationLine("Average", avgDuration),
           durationLine("Median", fromInt(medianDuration)),
           durationLine("Fastest", fromInt(minDuration)),
           durationLine("Slowest", fromInt(maxDuration))>>
    ELSE <<>>

\* The report of a non-empty build list (lines 709-853), section by section.
\* The state lines of the Overall Statistics section (lines 771-774), as
\* pairs of a state and the count printed for it.
overallStatistics(passedBuilds, failedBuilds, erroredBuilds, canceledBuilds) ==
    {<<"passed", passedBuilds>>, <<"failed", failedBuilds>>}
    \cup (IF erroredBuilds > 0 THEN {<<"errored", erroredBuilds>>} ELSE {})
    \cup (IF canceledBuilds > 0 THEN {<<"canceled", canceledBuilds>>} ELSE {})

insightsReport(args, builds) ==
    LET acc       == forBuilds(loopStart, builds)
        durations == sortAsc(acc.durations)
        avgDuration == IF acc.buildsWithDuration > 0
                       THEN fdivNat(acc.totalDuration, acc.buildsWithDuration)
                       ELSE fzero
        medianDuration == IF Len(durations) > 0
                          THEN durations[(Len(durations) \div 2) + 1] ELSE 0
        minDuration == IF Len(durations) > 0 THEN durations[1] ELSE 0
        maxDuration == IF Len(durations) > 0 THEN durations[Len(durations)] ELSE 0
        completed == completedBuilds(acc.passedBuilds, acc.failedBuilds,
                                     acc.erroredBuilds)
        passRate  == percentage(acc.passedBuilds, completed)
        recent    == recentPassRate(builds)
    IN  [totalBuilds    |-> Len(builds),
         passedBuilds   |-> acc.passedBuilds,
         failedBuilds   |-> acc.failedBuilds,
         erroredBuilds  |-> acc.erroredBuilds,
         canceledBuilds |-> acc.canceledBuilds,
         completedBuilds |-> completed,
         stateLines     |-> overallStatistics(acc.passedBuilds, acc.failedBuilds,
                                              acc.erroredBuilds, acc.canceledBuilds),
         passRate       |-> passRate,
         passRateShown  |-> toFixed1(passRate),
         recentPassRate |-> recent,
         recentShown    |-> toFixed1(recent),
         trend          |-> trendLabel(recent, passRate),
         hasDurations   |-> acc.buildsWithDuration > 0,
         avgDuration    |-> avgDuration,
         medianDuration |-> medianDuration,
         minDuration    |-> minDuration,
         maxDuration    |-> maxDuration,
         durationLines  |-> durationLines(acc.buildsWithDuration, avgDuration,
                                          medianDuration, minDuration, maxDuration),
         branches       |-> branchBreakdown(args.branch, acc),
         recentFailures |-> recentFailures(builds),
         stability      |-> stabilityLine(passRate),
         warnings       |-> warnings(recent, passRate, maxDuration, avgDuration,
                                     acc.failedBuilds, acc.passedBuilds)]

(***************************************************************************)
(* Text.  A log is a string; the handler splits it into lines, looks for   *)
(* substrings (String.prototype.includes) and tests regular expressions.   *)
(* A line is the region lo..hi of the log between two line feeds.  A       *)
(* regular expression is a set of alternatives, each a sequence of atoms:  *)
(* a literal, a literal that may be absent, a choice of literals, or a     *)
(* character class repeated (star: zero or more, plus: one or more).       *)
(***************************************************************************)
charAt(str, i) == SubSeq(str, i, i)

\* The i flag: characters are compared in lower case.
lowerChar(c) ==
    CASE c = "A" -> "a" [] c = "B" -> "b" [] c = "C" -> "c" [] c = "D" -> "d"
      [] c = "E" -> "e" [] c = "F" -> "f" [] c = "G" -> "g" [] c = "H" -> "h"
      [] c = "I" -> "i" [] c = "J" -> "j" [] c = "K" -> "k" [] c = "L" -> "l"
      [] c = "M" -> "m" [] c = "N" -> "n" [] c = "O" -> "o" [] c = "P" -> "p"
      [] c = "Q" -> "q" [] c = "R" -> "r" [] c = "S" -> "s" [] c = "T" -> "t"
      [] c = "U" -> "u" [] c = "V" -> "v" [] c = "W" -> "w" [] c = "X" -> "x"
      [] c = "Y" -> "y" [] c = "Z" -> "z" [] OTHER -> c

\* Does `lit` stand at position i of str, within the region ending at hi?
litAt(str, i, hi, lit, ignoreCase) ==
    /\ i + Len(lit) - 1 <= hi
    /\ \A k \in 1..Len(lit) :
          IF ignoreCase
          THEN lowerChar(charAt(str, i + k - 1)) = lowerChar(charAt(lit, k))
          ELSE charAt(str, i + k - 1) = charAt(lit, k)

\* line.includes(lit), the line being the region lo..hi of str.
includes(str, lo, hi, lit) == \E i \in lo..hi : litAt(str, i, hi, lit, FALSE)

\* The classes of the expressions: . (no line terminator), \d and \s.
inClass(ch, class) ==
    CASE class = "any"   -> ch \notin {"\n", "\r"}
      [] class = "digit" -> ch \in {"0", "1", "2", "3", "4", "5", "6", "7", "8", "9"}
      [] class = "space" -> ch \in {" ", "\t", "\n", "\r", "\f"}

\* The first position from i on whose character is not in the class.
runEnd(str, i, hi, class) ==
    LET stops == {k \in i..hi : ~inClass(charAt(str, k), class)}
    IN  IF stops = {} THEN hi + 1
        ELSE CHOOSE k \in stops : \A m \in stops : k <= m

\* The positions where a match of the atom starting at i may end.
atomEnds(atom, str, i, hi) ==
    CASE atom.t = "lit"  -> IF litAt(str, i, hi, atom.s, TRUE)
                            THEN {i + Len(atom.s)} ELSE {}
      [] atom.t = "opt"  -> {i} \cup (IF litAt(str, i, hi, atom.s, TRUE)
                                      THEN {i + Len(atom.s)} ELSE {})
      [] atom.t = "alt"  -> {i + Len(x) : x \in {y \in atom.ss : litAt(str, i, hi, y, TRUE)}}
      [] atom.t = "star" -> i..runEnd(str, i, hi, atom.c)
      [] atom.t = "plus" -> (i + 1)..runEnd(str, i, hi, atom.c)

RECURSIVE seqEnds(_, _, _, _)
seqEnds(atoms, str, starts, hi) ==
    IF atoms = <<>> \/ starts = {} THEN starts
    ELSE seqEnds(Tail(atoms), str,
                 UNION {atomEnds(Head(atoms), str, i, hi) : i \in starts}, hi)

\* pattern.test(line) for the region lo..hi, log.match(pattern) for 1..Len.
test(pattern, str, lo, hi) ==
    \E alternative \in pattern : seqEnds(alternative, str, lo..(hi + 1), hi) # {}

lit(s) == [t |-> "lit", s |-> s]
opt(s) == [t |-> "opt", s |-> s]
alt(ss) == [t |-> "alt", ss |-> ss]
star(c) == [t |-> "star", c |-> c]
plus(c) == [t |-> "plus", c |-> c]

\* log.split('\n'): the lines, each named by the position of its first
\* character, and the position of the last character of the line from lo.
lineStarts(log) == {1} \cup {i + 1 : i \in {k \in 1..Len(log) : charAt(log, k) = "\n"}}

lineEnd(log, lo) ==
    LET feeds == {k \in lo..Len(log) : charAt(log, k) = "\n"}
    IN  IF feeds = {} THEN Len(log)
        ELSE (CHOOSE k \in feeds : \A m \in feeds : k <= m) - 1

\* A variant that counts the phrases found, not the lines that hold them.
phrasesIncluded(log, substrings) ==
    Cardinality({<<i, sub>> \in (1..Len(log)) \X substrings :
                   litAt(log, i, Len(log), sub, FALSE)})

\* lines.filter(line => substrings.some(s => line.includes(s))).length
linesIncluding(log, substrings) ==
    Cardinality({lo \in lineStarts(log) :
                   \E sub \in substrings : includes(log, lo, lineEnd(log, lo), sub)})

\* lines.some(line => pattern.test(line))
someLine(log, pattern) ==
    \E lo \in lineStarts(log) : test(pattern, log, lo, lineEnd(log, lo))

(***************************************************************************)
(* travis(): one request to the Travis API (lines 50-73).  An answer of    *)
(* the service is its status code, the text of its body and, when that     *)
(* text is a JSON object, the object (json = <<object>>, <<>> otherwise).  *)
(***************************************************************************)
\* JSON.parse(text) of a text that is no JSON object: it is a number when the
\* text is a decimal integer, and throws otherwise, so that the text itself
\* is returned (lines 68-72).  The texts of this model are of these two kinds.
JSONparse(text) ==
    IF /\ Len(text) > 0
       /\ \A k \in 1..Len(text) : inClass(charAt(text, k), "digit")
       /\ (Len(text) = 1 \/ charAt(text, 1) # "0")
    THEN [t |-> "number", v |-> text]
    ELSE [t |-> "string", v |-> text]

\* A variant of travis() without the status test of lines 64-67.
travisIgnoringStatus(answer) ==
    [ok |-> TRUE,
     value |-> IF answer.json # <<>> THEN [t |-> "object", v |-> answer.json[1]]
               ELSE JSONparse(answer.text),
     message |-> ""]

\* The outcome of `await travis(path)`: the value returned, or the message of
\* the Error thrown for a status outside 200..299 (lines 63-72).
travis(answer) ==
    IF answer.status >= 200 /\ answer.status < 300
    THEN [ok |-> TRUE,
          value |-> IF answer.json # <<>> THEN [t |-> "object", v |-> answer.json[1]]
                    ELSE JSONparse(answer.text),
          message |-> ""]
    ELSE [ok |-> FALSE, value |-> [t |-> "undefined", v |-> ""],
          message |-> "Travis API error " \o ToString(answer.status) \o ": " \o answer.text]

\* What the handler returns from its catch block (lines 1147-1156) ...
errorResponse(message) ==
    [isError |-> TRUE, kind |-> "error", text |-> "Error: " \o message, report |-> <<>>]

\* ... and from a tool (return { content: [{ type: "text", text }] }).
textResponse(kind, text, report) ==
    [isError |-> FALSE, kind |-> kind, text |-> text, report |-> report]

\* The answers of Travis: a body of text under a status, or a JSON object.
textAnswer(status, text) == [status |-> status, text |-> text, json |-> <<>>]
jsonAnswer(object) == [status |-> 200, text |-> "", json |-> <<object>>]

(***************************************************************************)
(* The values of the promises of logPromises (lines 877-895).              *)
(***************************************************************************)
\* A variant of the catch block that keeps the bare message as the log.
catchResultWithoutPrefix(job, message) ==
    [jobId |-> job.id, jobNumber |-> job.number,
     log |-> [t |-> "string", v |-> message], duration |-> <<>>]

\* The value of the catch block (lines 887-893); `${error}` of an Error is
\* "Error: " followed by its message.
catchResult(job, message) ==
    [jobId |-> job.id, jobNumber |-> job.number,
     log |-> [t |-> "string", v |-> "Error fetching log: Error: " \o message],
     duration |-> <<>>]

\* jobDetails.duration   (line 885)
durationOf(value) == IF value.t = "object" THEN value.v.duration ELSE <<>>

\* The value of the try block (lines 881-886).
tryResult(job, log, jobDetails) ==
    [jobId |-> job.id, jobNumber |-> job.number, log |-> log,
     duration |-> durationOf(jobDetails)]

(***************************************************************************)
(* What Travis answers for a job in the worlds explored.  A log is plain   *)
(* text, as log.txt is, and never a JSON document.                         *)
(***************************************************************************)
LogAnswers ==
    {textAnswer(200, "$ npm install\nadded 10 packages"),
     textAnswer(200, "Done."),
     textAnswer(200, "$ docker pull node\n12 tests, 12 passed"),
     textAnswer(404, "not found"),
     textAnswer(500, "Error downloading log from archive")}

DetailAnswers ==
    {jsonAnswer([duration |-> <<400>>]), jsonAnswer([duration |-> <<90>>]),
     jsonAnswer([duration |-> <<>>]),
     textAnswer(500, "server error")}

\* Travis is not asked for the details of a job whose log it refused.
JobAnswers ==
    {<<l, d>> : l \in {a \in LogAnswers : a.status = 200}, d \in DetailAnswers}
    \cup {<<l, textAnswer(500, "server error")>> : l \in {a \in LogAnswers : a.status # 200}}

(***************************************************************************)
(* travis_getOptimizationRecommendations: the patterns (lines 907-994).    *)
(***************************************************************************)
\* Pattern 1 (lines 908-914).
installSubstrings ==
    {"npm install", "npm ci", "yarn install", "pip install", "bundle install"}

\* /cache.*hit|using cached|cache.*restored/i   (line 924)
cacheHitPattern ==
    { <<lit("cache"), star("any"), lit("hit")>>,
      <<lit("using cached")>>,
      <<lit("cache"), star("any"), lit("restored")>> }

\* A variant of line 925 without its third alternative.
cacheMissPatternWithoutDownloading ==
    { <<lit("cache"), star("any"), lit("miss")>>,
      <<lit("cache"), star("any"), lit("not found")>> }

\* /cache.*miss|cache.*not found|downloading/i   (line 925)
cacheMissPattern ==
    { <<lit("cache"), star("any"), lit("miss")>>,
      <<lit("cache"), star("any"), lit("not found")>>,
      <<lit("downloading")>> }

\* compilationPatterns (lines 937-943), in their order.
compilationPatterns ==
    << { <<lit("tsc")>>, <<lit("typescript compiler")>> },
       { <<lit("webpack")>>, <<lit("rollup")>>, <<lit("vite")>> },
       { <<lit("mvn compile")>>, <<lit("gradle build")>> },
       { <<lit("cargo build")>>, <<lit("go build")>> },
       { <<lit("npm run build")>>, <<lit("yarn build")>> } >>

\* testPatterns (lines 956-961), in their order.
testPatterns ==
    << { <<plus("digit"), plus("space"), lit("test"), opt("s"), lit(","),
           plus("space"), plus("digit"), plus("space"), lit("passed")>> },
       { <<lit("test suite"), opt("s"), lit(":"), star("any"), plus("digit"),
           star("any"), lit("passed")>> },
       { <<lit("test"), opt("s"), star("any"), lit("completed in"), star("any"),
           plus("digit"), opt("."), star("digit"), star("space"),
           alt({"s", "ms", "min"})>> },
       { <<lit("finished in"), star("any"), plus("digit"), opt("."),
           star("digit"), star("space"), lit("second"), opt("s")>> } >>

\* Pattern 5 (line 975).
dockerSubstrings == {"docker pull", "docker build"}

\* Pattern 6 (lines 983-987) and its threshold (line 989).
setupSubstrings == {"Setting up", "Installing", "Downloading"}
SetupThreshold == 10

\* The findings of one job, in the order the loop body pushes them
\* (lines 903-995); a finding is its category, the job's number and, for
\* Setup Overhead, the number of steps its detail names.
finding(category, jobNumber, steps) ==
    [category |-> category, jobNumber |-> jobNumber, steps |-> steps]

\* What the six patterns find in a log (lines 903-995): the categories in
\* the order the loop body pushes them, with the steps of Setup Overhead.
hit(category, steps) == [category |-> category, steps |-> steps]

\* A variant of pattern 3 without the break of line 951: a finding for
\* every compilation pattern that matches.
logFindingsWithoutBreak(log) ==
    LET setupSteps == linesIncluding(log, setupSubstrings)
    IN  (IF linesIncluding(log, installSubstrings) > 0
         THEN <<hit("Dependency Installation", 0)>> ELSE <<>>)
        \o
        (IF someLine(log, cacheMissPattern) /\ ~someLine(log, cacheHitPattern)
         THEN <<hit("Caching", 0)>> ELSE <<>>)
        \o
        Repeat(hit("Build Process", 0),
               Cardinality({k \in 1..Len(compilationPatterns) :
                              someLine(log, compilationPatterns[k])}))
        \o
        (IF \E k \in 1..Len(testPatterns) : test(testPatterns[k], log, 1, Len(log))
         THEN <<hit("Testing", 0)>> ELSE <<>>)
        \o
        (IF \E sub \in dockerSubstrings : includes(log, 1, Len(log), sub)
         THEN <<hit("Docker", 0)>> ELSE <<>>)
        \o
        (IF setupSteps > SetupThreshold
         THEN <<hit("Setup Overhead", setupSteps)>> ELSE <<>>)

\* A variant of pattern 1 that pushes a finding for every matching line.
logFindingsPerLine(log) ==
    LET setupSteps == linesIncluding(log, setupSubstrings)
    IN  Repeat(hit("Dependency Installation", 0), linesIncluding(log, installSubstrings))
        \o
        (IF someLine(log, cacheMissPattern) /\ ~someLine(log, cacheHitPattern)
         THEN <<hit("Caching", 0)>> ELSE <<>>)
        \o
        (IF \E k \in 1..Len(compilationPatterns) : someLine(log, compilationPatterns[k])
         THEN <<hit("Build Process", 0)>> ELSE <<>>)
        \o
        (IF \E k \in 1..Len(testPatterns) : test(testPatterns[k], log, 1, Len(log))
         THEN <<hit("Testing", 0)>> ELSE <<>>)
        \o
        (IF \E sub \in dockerSubstrings : includes(log, 1, Len(log), sub)
         THEN <<hit("Docker", 0)>> ELSE <<>>)
        \o
        (IF setupSteps > SetupThreshold
         THEN <<hit("Setup Overhead", setupSteps)>> ELSE <<>>)

logFindings(log) ==
    LET setupSteps == linesIncluding(log, setupSubstrings)
    IN  (IF linesIncluding(log, installSubstrings) > 0
         THEN <<hit("Dependency Installation", 0)>> ELSE <<>>)
        \o
        (IF someLine(log, cacheMissPattern) /\ ~someLine(log, cacheHitPattern)
         THEN <<hit("Caching", 0)>> ELSE <<>>)
        \o
        (IF \E k \in 1..Len(compilationPatterns) : someLine(log, compilationPatterns[k])
         THEN <<hit("Build Process", 0)>> ELSE <<>>)
        \o
        (IF \E k \in 1..Len(testPatterns) : test(testPatterns[k], log, 1, Len(log))
         THEN <<hit("Testing", 0)>> ELSE <<>>)
        \o
        (IF \E sub \in dockerSubstrings : includes(log, 1, Len(log), sub)
         THEN <<hit("Docker", 0)>> ELSE <<>>)
        \o
        (IF setupSteps > SetupThreshold
         THEN <<hit("Setup Overhead", setupSteps)>> ELSE <<>>)

\* The logs of builds with several jobs.
SharedLogs ==
    {"$ npm install\n$ tsc -p .\nwebpack 5 compiled", "$ npm install\nnpm install --save left-pad",
     "docker pull node\n12 tests, 12 passed", "$ npm install\ndocker pull node", "Done."}

\* The logs of the worlds explored, each analysed once: the texts Travis
\* delivers and the texts the catch block substitutes.
KnownLogs ==
    {a.text : a \in {l \in LogAnswers : l.status = 200}}
    \cup SharedLogs
    \cup {catchResult([id |-> 0, number |-> ""], travis(a).message).log.v :
            a \in {l \in LogAnswers \cup DetailAnswers : l.status # 200}}

knownFindings == [log \in KnownLogs |-> logFindings(log)]

findingsIn(log) ==
    IF log \in KnownLogs THEN knownFindings[log] ELSE logFindings(log)

jobFindings(jobLog) ==
    LET inLog == findingsIn(jobLog.log.v)
    IN  [i \in 1..Len(inLog) |->
           finding(inLog[i].category, jobLog.jobNumber, inLog[i].steps)]

\* for (const jobLog of jobLogs) { ... findings.push(...) }   (lines 900-995)
RECURSIVE analyzeJobs(_)
analyzeJobs(jobLogs) ==
    IF jobLogs = <<>> THEN <<>>
    ELSE jobFindings(Head(jobLogs)) \o analyzeJobs(Tail(jobLogs))

\* Jobs listed in the duration ranking (line 1123) and the duration, in
\* seconds, above which the slowest job draws a warning (line 1129).
SlowestShown == 3
SlowJobSeconds == 300

\* A variant that lists the categories found in the fixed order of the
\* patterns.
firstSeenInPatternOrder(findings, seen) ==
    filter(<<"Dependency Installation", "Caching", "Build Process", "Testing",
             "Docker", "Setup Overhead">>,
           {findings[i].category : i \in 1..Len(findings)})

\* The categories in the order of first appearance among the findings
\* (the key order of categoryCount and of grouped: lines 998-1001, 1029-1035).
RECURSIVE firstSeen(_, _)
firstSeen(findings, seen) ==
    IF findings = <<>> THEN seen
    ELSE firstSeen(Tail(findings),
                   IF \E i \in 1..Len(seen) : seen[i] = Head(findings).category
                   THEN seen ELSE Append(seen, Head(findings).category))

\* categoryCount[category]   (lines 998-1001)
categoryCount(findings, category) ==
    Cardinality({i \in 1..Len(findings) : findings[i].category = category})

\* grouped[category]: the findings of a category, in order (lines 1029-1035).
RECURSIVE findingsOf(_, _)
findingsOf(findings, category) ==
    IF findings = <<>> THEN <<>>
    ELSE IF Head(findings).category = category
         THEN <<Head(findings)>> \o findingsOf(Tail(findings), category)
         ELSE findingsOf(Tail(findings), category)

\* The remediation blocks, in the order the handler emits them (1050-1102).
remediationOrder ==
    <<"Dependency Installation", "Build Process", "Testing", "Docker",
      "Caching", "Setup Overhead">>

\* j.duration as a condition: neither undefined nor 0.
truthyDuration(jobLog) == jobLog.duration # <<>> /\ jobLog.duration[1] # 0

\* .sort((a, b) => (b.duration || 0) - (a.duration || 0))   (line 1119):
\* a stable sort, descending by duration.
RECURSIVE insertByDuration(_, _)
insertByDuration(x, sorted) ==
    IF sorted = <<>> THEN <<x>>
    ELSE IF x.duration[1] > Head(sorted).duration[1] THEN <<x>> \o sorted
    ELSE <<Head(sorted)>> \o insertByDuration(x, Tail(sorted))

\* A variant of line 1119 that leaves the jobs in their order.
sortByDurationKeepingOrder(arr) == arr

RECURSIVE sortByDuration(_)
sortByDuration(arr) ==
    IF arr = <<>> THEN <<>>
    ELSE insertByDuration(arr[Len(arr)],
                          sortByDuration(SubSeq(arr, 1, Len(arr) - 1)))

\* jobLogs.filter(j => j.duration)
RECURSIVE withDuration(_)
withDuration(jobLogs) ==
    IF jobLogs = <<>> THEN <<>>
    ELSE IF truthyDuration(Head(jobLogs))
         THEN <<Head(jobLogs)>> \o withDuration(Tail(jobLogs))
         ELSE withDuration(Tail(jobLogs))

\* The report once every job's promise has settled (lines 899-1143).
optimizationReport(jobs, jobLogs) ==
    LET findings   == analyzeJobs(jobLogs)
        categories == firstSeen(findings, <<>>)
        sortedJobs == sortByDuration(withDuration(jobLogs))
        shown      == slice0(sortedJobs, SlowestShown)
    IN  [analyzed    |-> Len(jobs),
         findings    |-> findings,
         keyFindings |-> [i \in 1..Len(categories) |->
                            [category |-> categories[i],
                             count |-> categoryCount(findings, categories[i])]],
         grouped     |-> [i \in 1..Len(categories) |->
                            [category |-> categories[i],
                             details |-> findingsOf(findings, categories[i])]],
         remediation |-> filter(remediationOrder,
                                {c \in {remediationOrder[i] : i \in 1..Len(remediationOrder)} :
                                   categoryCount(findings, c) > 0}),
         slowest     |-> [i \in 1..Len(shown) |->
                            [jobNumber |-> shown[i].jobNumber,
                             minutes |-> shown[i].duration[1] \div 60,
                             seconds |-> shown[i].duration[1] % 60]],
         slowWarning |-> sortedJobs # <<>> /\ sortedJobs[1].duration[1] > SlowJobSeconds]

(***************************************************************************)
(* The state.                                                              *)
(***************************************************************************)
VARIABLES
    call,        \* the tools/call request being served: [name, args]
    pc,          \* where the handler stands: "idle", "awaitBuilds",
                 \* "awaitBuild", "awaitJobs" or "returned"
    upBuilds,    \* Travis: the builds of the repository, newest first, and
                 \* the status it answers GET /repo/{slug}/builds with
    upBuild,     \* Travis: the answer to GET /build/{id}
    upLog,       \* Travis: per job, the answer to GET /job/{id}/log.txt
    upJob,       \* Travis: per job, the answer to GET /job/{id}
    jobs,        \* buildData.jobs || []
    jobPc,       \* per job, where its async callback stands:
                 \* "awaitLog", "awaitDetail" or "settled"
    fetched,     \* per job, the log its callback holds while it awaits the details
    jobLogs,     \* the values of logPromises, in the order of jobs
    requests,    \* every request sent to Travis so far, in order
    settledOrder,\* the jobs in the order their promises settled
    response     \* what the handler returned

vars == <<call, pc, upBuilds, upBuild, upLog, upJob, jobs, jobPc, fetched,
          jobLogs, requests, settledOrder, response>>

noResponse == [isError |-> FALSE, kind |-> "none", text |-> "", report |-> <<>>]

(***************************************************************************)
(* travis_getBuildInsights.                                                *)
(***************************************************************************)
\* From the call to the first await (lines 683-697).
CallInsights ==
    /\ pc = "idle"
    /\ call.name = "travis_getBuildInsights"
    /\ IF call.args.repo = undefined
       THEN /\ response' = errorResponse("Parameter 'repo' is required")
            /\ pc' = "returned"
            /\ UNCHANGED requests
       ELSE /\ requests' = Append(requests,
                                  [path |-> "builds", repo |-> call.args.repo,
                                   limit |-> limitOf(call.args),
                                   branch |-> call.args.branch, job |-> 0])
            /\ pc' = "awaitBuilds"
            /\ UNCHANGED response
    /\ UNCHANGED <<call, upBuilds, upBuild, upLog, upJob, jobs, jobPc, fetched,
                   jobLogs, settledOrder>>

\* const builds = buildsData.builds || []   (line 698)
buildsOf(value) == IF value.t = "object" THEN value.v.builds ELSE <<>>

\* From the answer to the build list to the return (lines 697-853).
\* A variant of lines 700-707 that reports on an empty list as on any other.
insightsResponseWithoutEmptyCase(args, outcome) ==
    IF ~outcome.ok THEN errorResponse(outcome.message)
    ELSE textResponse("insights", "Build Insights",
                      insightsReport(args, buildsOf(outcome.value)))

insightsResponse(args, outcome) ==
    IF ~outcome.ok THEN errorResponse(outcome.message)
    ELSE IF Len(buildsOf(outcome.value)) = 0
         THEN textResponse("no builds", "No builds found for repository", <<>>)
         ELSE textResponse("insights", "Build Insights",
                           insightsReport(args, buildsOf(outcome.value)))

\* Travis, GET /repo/{slug}/builds?limit=L[&branch.name=B]: at most L builds
\* of the repository, newest first, those of branch B only when B is given.
onBranch(builds, branch) ==
    IF branch = undefined THEN builds
    ELSE filter(builds, {b \in {builds[i] : i \in 1..Len(builds)} : b.branch = branch})

travisBuilds(up, request) ==
    IF up.status = 200
    THEN jsonAnswer([builds |-> slice0(onBranch(up.builds, request.branch),
                                       request.limit)])
    ELSE textAnswer(up.status, up.text)

BuildsAnswered ==
    /\ pc = "awaitBuilds"
    /\ response' = insightsResponse(call.args,
                                    travis(travisBuilds(upBuilds, requests[Len(requests)])))
    /\ pc' = "returned"
    /\ UNCHANGED <<call, upBuilds, upBuild, upLog, upJob, jobs, jobPc, fetched,
                   jobLogs, requests, settledOrder>>

(***************************************************************************)
(* travis_getOptimizationRecommendations.  The callback of jobs.map runs   *)
(* for every job up to its first await, so that every log is requested     *)
(* before any answer is handled; each callback then resumes on its own     *)
(* answers, and the handler resumes when every promise has settled.        *)
(***************************************************************************)
\* A variant in which the second fetch of a job asks for its log again.
requestLogAgain(path, id) ==
    [path |-> IF path = "job" THEN "log" ELSE path, repo |-> "", limit |-> 0,
     branch |-> undefined, job |-> id]

request(path, id) ==
    [path |-> path, repo |-> "", limit |-> 0, branch |-> undefined, job |-> id]

\* From the call to the first await (lines 856-865).
CallOptimization ==
    /\ pc = "idle"
    /\ call.name = "travis_getOptimizationRecommendations"
    /\ IF call.args.buildId = <<>> \/ call.args.buildId = <<0>>
       THEN /\ response' = errorResponse("Parameter 'buildId' is required")
            /\ pc' = "returned"
            /\ UNCHANGED requests
       ELSE /\ requests' = Append(requests, request("build", call.args.buildId[1]))
            /\ pc' = "awaitBuild"
            /\ UNCHANGED response
    /\ UNCHANGED <<call, upBuilds, upBuild, upLog, upJob, jobs, jobPc, fetched,
                   jobLogs, settledOrder>>

\* const jobs = buildData.jobs || []   (line 865)
jobsOf(value) == IF value.t = "object" THEN value.v.jobs ELSE <<>>

\* A promise of logPromises that has not settled.
pending(job) ==
    [jobId |-> job.id, jobNumber |-> job.number,
     log |-> [t |-> "pending", v |-> ""], duration |-> <<>>]

\* From the answer to the build request to the await of Promise.all
\* (lines 864-897), or to the return when the build has no jobs.
BuildAnswered ==
    /\ pc = "awaitBuild"
    /\ LET outcome == travis(upBuild)
           found   == jobsOf(outcome.value)
       IN  IF ~outcome.ok
           THEN /\ response' = errorResponse(outcome.message)
                /\ pc' = "returned"
                /\ UNCHANGED <<jobs, jobPc, fetched, jobLogs, requests>>
           ELSE IF Len(found) = 0
           THEN /\ response' = textResponse("no jobs", "No jobs found for this build.", <<>>)
                /\ pc' = "returned"
                /\ UNCHANGED <<jobs, jobPc, fetched, jobLogs, requests>>
           ELSE /\ jobs' = found
                /\ requests' = requests \o [j \in 1..Len(found) |->
                                              request("log", found[j].id)]
                /\ jobPc' = [j \in 1..Len(found) |-> "awaitLog"]
                /\ fetched' = [j \in 1..Len(found) |-> [t |-> "undefined", v |-> ""]]
                /\ jobLogs' = [j \in 1..Len(found) |-> pending(found[j])]
                /\ pc' = "awaitJobs"
                /\ UNCHANGED response
    /\ UNCHANGED <<call, upBuilds, upBuild, upLog, upJob, settledOrder>>

\* A variant of Promise.all that files each value where it arrives.
storeInArrivalOrder(values, j, settled, value) ==
    [values EXCEPT ![Len(settled) + 1] = value]

\* Promise.all keeps the position of each promise (line 897).
store(values, j, settled, value) == [values EXCEPT ![j] = value]

\* The callback of job j resumes after `await travis(/job/{id}/log.txt)`
\* (lines 879-880, or 887 when the request failed).
LogAnswered(j) ==
    /\ pc = "awaitJobs"
    /\ jobPc[j] = "awaitLog"
    /\ LET outcome == travis(upLog[j])
       IN  IF outcome.ok
           THEN /\ fetched' = [fetched EXCEPT ![j] = outcome.value]
                /\ requests' = Append(requests, request("job", jobs[j].id))
                /\ jobPc' = [jobPc EXCEPT ![j] = "awaitDetail"]
                /\ UNCHANGED <<jobLogs, settledOrder>>
           ELSE /\ jobLogs' = store(jobLogs, j, settledOrder,
                                    catchResult(jobs[j], outcome.message))
                /\ jobPc' = [jobPc EXCEPT ![j] = "settled"]
                /\ settledOrder' = Append(settledOrder, j)
                /\ UNCHANGED <<fetched, requests>>
    /\ UNCHANGED <<call, pc, upBuilds, upBuild, upLog, upJob, jobs, response>>

\* The callback of job j resumes after `await travis(/job/{id})`
\* (lines 880-886, or 887 when the request failed).
DetailAnswered(j) ==
    /\ pc = "awaitJobs"
    /\ jobPc[j] = "awaitDetail"
    /\ LET outcome == travis(upJob[j])
       IN  jobLogs' = store(jobLogs, j, settledOrder,
                            IF outcome.ok
                            THEN tryResult(jobs[j], fetched[j], outcome.value)
                            ELSE catchResult(jobs[j], outcome.message))
    /\ jobPc' = [jobPc EXCEPT ![j] = "settled"]
    /\ settledOrder' = Append(settledOrder, j)
    /\ UNCHANGED <<call, pc, upBuilds, upBuild, upLog, upJob, jobs, fetched,
                   requests, response>>

\* A variant of Promise.all that resolves with the first promise settled.
anySettled(positions) ==
    \E j \in 1..Len(positions) : positions[j] = "settled"

\* Promise.all resolves when every promise has (line 897).
allSettled(positions) ==
    \A j \in 1..Len(positions) : positions[j] = "settled"

\* A variant that keeps the last report in a variable of the module and
\* answers with it when there is one.
optimizationResponseCached(analysedJobs, values) ==
    IF response.kind = "optimization" THEN response
    ELSE IF \E j \in 1..Len(values) : values[j].log.t \notin {"string", "pending"}
    THEN errorResponse("log.split is not a function")
    ELSE textResponse("optimization", "Build Optimization Recommendations",
                      optimizationReport(analysedJobs, values))

\* From the join to the return (lines 897-1143).  log.split of a log that
\* is no string throws, and the handler's catch block answers.
optimizationResponse(analysedJobs, values) ==
    IF \E j \in 1..Len(values) : values[j].log.t \notin {"string", "pending"}
    THEN errorResponse("log.split is not a function")
    ELSE textResponse("optimization", "Build Optimization Recommendations",
                      optimizationReport(analysedJobs, values))

JobsSettled ==
    /\ pc = "awaitJobs"
    /\ allSettled(jobPc)
    /\ response' = optimizationResponse(jobs, jobLogs)
    /\ pc' = "returned"
    /\ UNCHANGED <<call, upBuilds, upBuild, upLog, upJob, jobs, jobPc, fetched,
                   jobLogs, requests, settledOrder>>

(***************************************************************************)
(* The worlds of travis_getBuildInsights: the call and the repository.     *)
(***************************************************************************)
build(state, branch, duration) ==
    [state |-> state, branch |-> branch, duration |-> duration]

\* Short lists: every order of every state on two branches or none.
ShortBuilds ==
    {build(s, b, <<>>) : s \in {"passed", "failed", "errored", "canceled", "started"},
                         b \in {"main", "dev"}}
ShortLists == SeqUpTo(ShortBuilds, MaxBuilds)

\* Block lists: a passed, b failed, c errored, d passed, e failed builds, in
\* this order, long enough for the recent window to differ from the whole.
blockList(a, b, c, d, e) ==
    Repeat(build("passed", "main", <<>>), a) \o Repeat(build("failed", "main", <<>>), b)
    \o Repeat(build("errored", "main", <<>>), c) \o Repeat(build("passed", "main", <<>>), d)
    \o Repeat(build("failed", "main", <<>>), e)
BlockLists ==
    {blockList(a, b, c, d, e) : a \in 0..MaxRun, b \in 0..MaxRun, c \in 0..1,
                                d \in 0..MaxRun, e \in 0..MaxRun}

\* Lists with durations, a build without a state, a branch named as a
\* property of Object.prototype, six branches, and canceled builds inside
\* the recent window.
SampleLists ==
    { <<build("passed", "main", <<90>>), build("failed", "dev", <<30>>),
        build(undefined, "main", <<0>>), build("passed", "dev", <<200>>)>>,
      <<build("errored", "dev", <<61>>), build("passed", "main", <<>>),
        build("canceled", undefined, <<10>>), build("started", "main", <<>>),
        build("failed", "main", <<45>>)>>,
      <<build("passed", "main", <<>>), build("passed", "constructor", <<>>)>>,
      <<build("passed", "b1", <<>>), build("failed", "b2", <<>>),
        build("passed", "b3", <<>>), build("passed", "b2", <<>>),
        build("errored", "b4", <<>>), build("passed", "b5", <<>>),
        build("passed", "b6", <<>>), build("failed", "b6", <<>>),
        build("passed", "b6", <<>>), build("passed", "b4", <<>>)>>,
      Repeat(build("passed", "main", <<>>), 1) \o Repeat(build("failed", "main", <<>>), 5)
        \o Repeat(build("canceled", "main", <<>>), 4)
        \o Repeat(build("passed", "main", <<>>), 3) \o Repeat(build("failed", "main", <<>>), 6),
      <<>> }

\* Duration lists: every order of builds with no duration, a duration of 0
\* and three positive durations.
DurationLists ==
    SeqUpTo({build("passed", "main", d) : d \in {<<>>, <<0>>, <<45>>, <<90>>, <<200>>}},
            MaxBuilds)

plainArgs == [repo |-> "owner/name", limit |-> <<>>, branch |-> undefined]

InsightArgs ==
    [repo : {"owner/name", undefined}, limit : {<<>>, <<0>>, <<2>>, <<200>>},
     branch : {undefined, "main"}]

InitInsights ==
    /\ pc = "idle"
    /\ \/ /\ call = [name |-> "travis_getBuildInsights", args |-> plainArgs]
          /\ upBuilds \in {[status |-> 200, text |-> "", builds |-> l] :
                             l \in ShortLists \cup BlockLists \cup DurationLists}
       \/ /\ call \in {[name |-> "travis_getBuildInsights", args |-> a] :
                         a \in InsightArgs}
          /\ upBuilds \in {[status |-> 200, text |-> "", builds |-> l] : l \in SampleLists}
                          \cup {[status |-> 500, text |-> "server error", builds |-> <<>>]}
    /\ upBuild = textAnswer(404, "")
    /\ upLog = <<>>
    /\ upJob = <<>>
    /\ jobs = <<>>
    /\ jobPc = <<>>
    /\ fetched = <<>>
    /\ jobLogs = <<>>
    /\ requests = <<>>
    /\ settledOrder = <<>>
    /\ response = noResponse

NextInsights == CallInsights \/ BuildsAnswered

SpecInsights == InitInsights /\ [][NextInsights]_vars

(***************************************************************************)
(* The worlds of travis_getOptimizationRecommendations: the call, the      *)
(* build, and what Travis answers for each of its jobs.                    *)
(***************************************************************************)
job(i) == [id |-> i, number |-> "1." \o ToString(i)]

InitOpt ==
    /\ pc = "idle"
    /\ \/ /\ call = [name |-> "travis_getOptimizationRecommendations",
                     args |-> [buildId |-> <<7>>]]
          /\ \E n \in 1..MaxJobs :
                \E answers \in [1..n -> JobAnswers] :
                    /\ upBuild = jsonAnswer([jobs |-> [j \in 1..n |-> job(j)]])
                    /\ upLog = [j \in 1..n |-> answers[j][1]]
                    /\ upJob = [j \in 1..n |-> answers[j][2]]
       \/ /\ call \in {[name |-> "travis_getOptimizationRecommendations",
                        args |-> [buildId |-> b]] : b \in {<<>>, <<0>>, <<7>>}}
          /\ upBuild \in {jsonAnswer([jobs |-> <<>>]), textAnswer(404, "not found")}
          /\ upLog = <<>>
          /\ upJob = <<>>
    /\ upBuilds = [status |-> 500, text |-> "", builds |-> <<>>]
    /\ jobs = <<>>
    /\ jobPc = <<>>
    /\ fetched = <<>>
    /\ jobLogs = <<>>
    /\ requests = <<>>
    /\ settledOrder = <<>>
    /\ response = noResponse

NextOpt ==
    \/ CallOptimization
    \/ BuildAnswered
    \/ \E j \in 1..Len(jobs) : LogAnswered(j)
    \/ \E j \in 1..Len(jobs) : DetailAnswered(j)
    \/ JobsSettled

SpecOpt == InitOpt /\ [][NextOpt]_vars

(***************************************************************************)
(* The worlds of the log analysis: builds whose jobs all answer, with logs *)
(* made of lines that carry the phrases of the six patterns.               *)
(***************************************************************************)
MaxLines == 2

\* lines.join('\n')
RECURSIVE joinLines(_)
joinLines(lines) ==
    IF lines = <<>> THEN ""
    ELSE IF Len(lines) = 1 THEN lines[1]
    ELSE lines[1] \o "\n" \o joinLines(Tail(lines))

LogLines ==
    {"$ npm install", "Done.", "cache miss for key", "Cache HIT",
     "Downloading archive", "$ tsc -p .", "12 tests, 12 passed", "docker pull node"}

ShortLogs == {joinLines(lines) : lines \in SeqUpTo(LogLines, MaxLines)}

\* Logs around the threshold of pattern 6: lines with one of its phrases,
\* lines with two of them, and lines with a phrase in lower case.
setupLog(a, b, c, d) ==
    joinLines(Repeat("Setting up env", a) \o Repeat("Installing pkg", b)
              \o Repeat("Preparing: Installing and Setting up", c)
              \o Repeat("installing quietly", d))

SetupLogs == {setupLog(a, b, c, d) : a \in {0, 4}, b \in 5..7, c \in 0..1, d \in 0..1}

\* Logs with the other phrases of the two cache expressions.
CacheLogs ==
    {"Downloading archive\nUsing cached wheel", "restore: cache not found",
     "cache not found\ncache restored from key", "npm install --save left-pad"}

InitLogs ==
    /\ pc = "idle"
    /\ call = [name |-> "travis_getOptimizationRecommendations",
               args |-> [buildId |-> <<7>>]]
    /\ \E n \in 1..MaxJobs :
          \E logs \in IF n = 1 THEN [1..1 -> ShortLogs \cup SetupLogs \cup CacheLogs
                                                 \cup SharedLogs]
                       ELSE [1..n -> SharedLogs] :
              /\ upBuild = jsonAnswer([jobs |-> [j \in 1..n |-> job(j)]])
              /\ upLog = [j \in 1..n |-> textAnswer(200, logs[j])]
              /\ upJob = [j \in 1..n |-> jsonAnswer([duration |-> <<90>>])]
    /\ upBuilds = [status |-> 500, text |-> "", builds |-> <<>>]
    /\ jobs = <<>>
    /\ jobPc = <<>>
    /\ fetched = <<>>
    /\ jobLogs = <<>>
    /\ requests = <<>>
    /\ settledOrder = <<>>
    /\ response = noResponse

SpecLogs == InitLogs /\ [][NextOpt]_vars

(***************************************************************************)
(* The worlds of the duration ranking: builds with more jobs than the      *)
(* ranking lists, every log answered, the details answered with a duration *)
(* or without one, or refused.                                             *)
(***************************************************************************)
RankedJobs == SlowestShown + 1

DurationChoices ==
    {jsonAnswer([duration |-> <<>>]), jsonAnswer([duration |-> <<0>>]),
     jsonAnswer([duration |-> <<200>>]), jsonAnswer([duration |-> <<300>>]),
     jsonAnswer([duration |-> <<400>>])}

TiedChoices == {jsonAnswer([duration |-> <<200>>]), jsonAnswer([duration |-> <<400>>])}

SampleDetails ==
    { <<jsonAnswer([duration |-> <<400>>]), jsonAnswer([duration |-> <<100>>]),
        jsonAnswer([duration |-> <<200>>])>>,
      <<jsonAnswer([duration |-> <<100>>]), jsonAnswer([duration |-> <<400>>]),
        jsonAnswer([duration |-> <<301>>]), jsonAnswer([duration |-> <<200>>])>>,
      <<jsonAnswer([duration |-> <<0>>]), jsonAnswer([duration |-> <<301>>]),
        textAnswer(500, "server error"), jsonAnswer([duration |-> <<61>>])>>,
      <<jsonAnswer([duration |-> <<0>>]), textAnswer(500, "server error"),
        jsonAnswer([duration |-> <<>>])>> }

InitRanking ==
    /\ pc = "idle"
    /\ call = [name |-> "travis_getOptimizationRecommendations",
               args |-> [buildId |-> <<7>>]]
    /\ upJob \in SampleDetails \cup [1..SlowestShown -> DurationChoices]
                 \cup [1..RankedJobs -> TiedChoices]
    /\ upBuild = jsonAnswer([jobs |-> [j \in 1..Len(upJob) |-> job(j)]])
    /\ upLog = [j \in 1..Len(upJob) |-> textAnswer(200, "Done.")]
    /\ upBuilds = [status |-> 500, text |-> "", builds |-> <<>>]
    /\ jobs = <<>>
    /\ jobPc = <<>>
    /\ fetched = <<>>
    /\ jobLogs = <<>>
    /\ requests = <<>>
    /\ settledOrder = <<>>
    /\ response = noResponse

SpecRanking == InitRanking /\ [][NextOpt]_vars

(***************************************************************************)
(* Both tools: a call of either, on the argument worlds of the insights    *)
(* tool over the sample lists and on every world of the optimization tool. *)
(***************************************************************************)
InitTools ==
    \/ /\ InitInsights
       /\ call.args \in InsightArgs
       /\ upBuilds.builds \in SampleLists
    \/ InitOpt

NextTools == NextInsights \/ NextOpt

SpecTools == InitTools /\ [][NextTools]_vars

(***************************************************************************)
(* A session: the server handles one tools/call request after another.     *)
(* Every variable of the handler is local to the invocation; what an       *)
(* earlier invocation left in them stays where it was until the new        *)
(* invocation assigns it.  A name that is no tool of the server is         *)
(* answered by the throw of line 1146.                                     *)
(***************************************************************************)
MaxSessionRequests == 4

\* A variant in which one more name passes for a tool, with no branch of
\* the handler to serve it.
ToolNamesWithoutBranch ==
    {"travis_getBuildInsights", "travis_getOptimizationRecommendations",
     "travis_noSuchTool"}

ToolNames ==
    {"travis_getBuildInsights", "travis_getOptimizationRecommendations"}

\* throw new Error(`Unknown tool: ${name}`)   (line 1146)
CallUnknown ==
    /\ pc = "idle"
    /\ call.name \notin ToolNames
    /\ response' = errorResponse("Unknown tool: " \o call.name)
    /\ pc' = "returned"
    /\ UNCHANGED <<call, upBuilds, upBuild, upLog, upJob, jobs, jobPc, fetched,
                   jobLogs, requests, settledOrder>>

\* A request and what Travis holds while it is served.
world(name, args, builds, answer, logs, details) ==
    [call |-> [name |-> name, args |-> args], upBuilds |-> builds,
     upBuild |-> answer, upLog |-> logs, upJob |-> details]

noBuilds == [status |-> 500, text |-> "server error", builds |-> <<>>]

sessionLog(j) ==
    IF j % 2 = 1 THEN textAnswer(200, "$ npm install\nadded 10 packages")
    ELSE textAnswer(200, "$ docker pull node\n12 tests, 12 passed")

sessionDetail(j) ==
    IF j % 2 = 1 THEN jsonAnswer([duration |-> <<400>>]) ELSE textAnswer(500, "server error")

SessionWorlds ==
    {world("travis_getBuildInsights", plainArgs,
           [status |-> 200, text |-> "", builds |-> l], textAnswer(404, ""), <<>>, <<>>) :
       l \in {<<build("passed", "main", <<90>>), build("failed", "dev", <<30>>)>>,
              <<build("failed", "main", <<>>)>>, <<>>}}
    \cup {world("travis_getBuildInsights", a, noBuilds, textAnswer(404, ""), <<>>, <<>>) :
            a \in {plainArgs, [plainArgs EXCEPT !.repo = undefined]}}
    \cup {world("travis_getOptimizationRecommendations", [buildId |-> <<7>>], noBuilds,
                jsonAnswer([jobs |-> [j \in 1..n |-> job(j)]]),
                [j \in 1..n |-> sessionLog(j)], [j \in 1..n |-> sessionDetail(j)]) :
            n \in 0..MaxJobs}
    \cup {world("travis_getOptimizationRecommendations", [buildId |-> b], noBuilds,
                textAnswer(404, "not found"), <<>>, <<>>) : b \in {<<>>, <<7>>}}
    \cup {world("travis_noSuchTool", [buildId |-> <<7>>], noBuilds,
                textAnswer(404, ""), <<>>, <<>>)}

InitSession ==
    /\ pc = "idle"
    /\ \E w \in SessionWorlds :
          /\ call = w.call
          /\ upBuilds = w.upBuilds
          /\ upBuild = w.upBuild
          /\ upLog = w.upLog
          /\ upJob = w.upJob
    /\ jobs = <<>>
    /\ jobPc = <<>>
    /\ fetched = <<>>
    /\ jobLogs = <<>>
    /\ requests = <<>>
    /\ settledOrder = <<>>
    /\ response = noResponse

\* The handler is invoked again (line 257) once it has returned.
NextInvocation ==
    /\ pc = "returned"
    /\ Len(requests) < MaxSessionRequests
    /\ \E w \in SessionWorlds :
          /\ call' = w.call
          /\ upBuilds' = w.upBuilds
          /\ upBuild' = w.upBuild
          /\ upLog' = w.upLog
          /\ upJob' = w.upJob
    /\ pc' = "idle"
    /\ UNCHANGED <<jobs, jobPc, fetched, jobLogs, requests, settledOrder, response>>

NextSession == NextTools \/ CallUnknown \/ NextInvocation

SpecSession == InitSession /\ [][NextSession]_vars

\* The step that leaves `await travis(buildPath)` (line 697), by its effect
\* on pc alone: BuildsAnswered is the only step there.
AwaitBuildsLeft == pc = "awaitBuilds" /\ pc' = "returned"

\* The step that leaves `await Promise.all(logPromises)` (line 897), by its
\* effect on pc alone: JobsSettled is the only step there once every promise
\* has settled.
AwaitJobsLeft == pc = "awaitJobs" /\ allSettled(jobPc) /\ pc' = "returned"

\* The steps of a handler that put a request or take an answer to one.
HandlerSteps ==
    \/ CallInsights
    \/ CallUnknown
    \/ CallOptimization
    \/ BuildAnswered
    \/ \E j \in 1..Len(jobs) : LogAnswered(j)
    \/ \E j \in 1..Len(jobs) : DetailAnswered(j)

\* The handler runs when it can, and every fetch it awaits is answered; no
\* further request need arrive.
FairSession ==
    /\ SpecSession
    /\ WF_vars(HandlerSteps)
    /\ WF_pc(AwaitBuildsLeft)
    /\ WF_pc(AwaitJobsLeft)

(***************************************************************************)
(* Properties of travis_getBuildInsights.                                  *)
(***************************************************************************)
abs(n) == IF n < 0 THEN 0 - n ELSE n

\* The build list the handler analysed: what Travis answered to its request.
analysed == buildsOf(travis(travisBuilds(upBuilds, requests[Len(requests)])).value)

insightsReturned == pc = "returned" /\ response.kind = "insights"

\* The number of builds of a list whose state is one of S.
countIn(builds, S) == Cardinality({i \in 1..Len(builds) : builds[i].state \in S})

\* n tenths of a percent is 100 * passed / completed to one decimal place:
\* no other multiple of 0.1 is nearer to the exact quotient.
showsRate(n, passed, completed) ==
    IF completed = 0 THEN n = 0
    ELSE 2 * abs(n * completed - 1000 * passed) <= completed

\* C1: for every build list analysed, the overall pass rate of the report
\* is 100 * passed / (passed + failed + errored) to the one decimal place
\* shown, lies within [0, 100], and is 0 when passed + failed + errored = 0.
C1_OverallPassRate ==
    insightsReturned =>
        LET passed    == countIn(analysed, {"passed"})
            completed == passed + countIn(analysed, {"failed"})
                                + countIn(analysed, {"errored"})
        IN  /\ showsRate(response.report.passRateShown, passed, completed)
            /\ fge(response.report.passRate, fzero)
            /\ fle(response.report.passRate, fromInt(100))
            /\ completed = 0 => response.report.passRate = fzero

\* A report over passed, failed and errored builds whose rate is not a whole
\* number of percent.
C1_Witness ==
    /\ insightsReturned
    /\ countIn(analysed, {"passed"}) = 1
    /\ countIn(analysed, {"failed"}) = 1
    /\ countIn(analysed, {"errored"}) = 1
    /\ response.report.passRateShown = 333

\* The first min(10, total) builds of the list analysed.
firstTen == SubSeq(analysed, 1, IF Len(analysed) < 10 THEN Len(analysed) ELSE 10)

\* A rate as an exact fraction of percent, <<numerator, denominator>>: 0 when
\* nothing completed.
exactRate(passed, completed) ==
    IF completed > 0 THEN <<100 * passed, completed>> ELSE <<0, 1>>

\* recent - overall > 5 and recent - overall < -5, on exact fractions.
exceedsBy5(recent, overall) ==
    recent[1] * overall[2] - overall[1] * recent[2] > 5 * recent[2] * overall[2]

\* C7: the trend label is exactly "Improving" when recentRate - overallRate
\* > 5, "Declining" when recentRate - overallRate < -5 and "Stable"
\* otherwise, a difference of exactly 5 in either direction being "Stable".
\* The two rates are those of the report: the recent one over the passed and
\* failed builds of the recent window, the overall one over the passed,
\* failed and errored builds of the list.
C7_TrendLabel ==
    insightsReturned =>
        LET recent  == exactRate(countIn(firstTen, {"passed"}),
                                 countIn(firstTen, {"passed", "failed"}))
            overall == exactRate(countIn(analysed, {"passed"}),
                                 countIn(analysed, {"passed", "failed", "errored"}))
        IN  response.report.trend =
                IF exceedsBy5(recent, overall) THEN "Improving"
                ELSE IF exceedsBy5(overall, recent) THEN "Declining"
                ELSE "Stable"

\* Twenty builds, 5 of the recent 10 passed and 11 of all 20: the rates
\* shown are 50.0 and 55.0, and the label is "Declining".
C7_Witness ==
    /\ insightsReturned
    /\ Len(analysed) = 20
    /\ countIn(analysed, {"passed", "failed"}) = 20
    /\ countIn(firstTen, {"passed"}) = 5
    /\ countIn(analysed, {"passed"}) = 11
    /\ response.report.recentShown = 500
    /\ response.report.passRateShown = 550
    /\ response.report.trend = "Declining"

\* C8: the recent pass rate is computed as the overall one is, as
\* 100 * passed / (passed + failed + errored), 0 when the denominator is 0,
\* over the first min(10, total) builds of the list.
C8_RecentPassRate ==
    insightsReturned =>
        showsRate(response.report.recentShown, countIn(firstTen, {"passed"}),
                  countIn(firstTen, {"passed", "failed", "errored"}))

\* One passed and one errored build: the recent rate shown is 100.0, the
\* overall rate 50.0.
C8_Witness ==
    /\ insightsReturned
    /\ Len(analysed) = 2
    /\ countIn(analysed, {"passed"}) = 1
    /\ countIn(analysed, {"errored"}) = 1
    /\ response.report.recentShown = 1000
    /\ response.report.passRateShown = 500

\* C9: exactly "passed" counts as success and exactly "failed" and "errored"
\* as failure; a build in state "canceled" or in any other state is left out
\* of the completed builds, the denominator of the rate, and is counted in
\* the total number of builds analysed.
C9_Classification ==
    insightsReturned =>
        LET notCompleted == {i \in 1..Len(analysed) :
                               analysed[i].state \notin {"passed", "failed", "errored"}}
        IN  /\ response.report.passedBuilds = countIn(analysed, {"passed"})
            /\ response.report.failedBuilds = countIn(analysed, {"failed"})
            /\ response.report.erroredBuilds = countIn(analysed, {"errored"})
            /\ response.report.totalBuilds = Len(analysed)
            /\ response.report.completedBuilds =
                   Len(analysed) - Cardinality(notCompleted)
            /\ response.report.completedBuilds =
                   response.report.passedBuilds + response.report.failedBuilds
                   + response.report.erroredBuilds
            /\ response.report.completedBuilds > 0 =>
                   response.report.passRate =
                       fmul(fdivNat(response.report.passedBuilds,
                                    response.report.completedBuilds), fromInt(100))

\* A report over a canceled build, a build in another state, a passed build
\* and failures.
C9_Witness ==
    /\ insightsReturned
    /\ countIn(analysed, {"canceled"}) > 0
    /\ countIn(analysed, {"started", undefined}) > 0
    /\ countIn(analysed, {"passed"}) > 0
    /\ countIn(analysed, {"failed"}) > 0
    /\ countIn(analysed, {"errored"}) > 0
    /\ response.report.completedBuilds < response.report.totalBuilds

\* The builds of the list analysed that the report files under a branch
\* name.
ofBranch(name) ==
    filter(analysed, {b \in {analysed[i] : i \in 1..Len(analysed)} :
                        branchNameOf(b) = name})

\* C10: for each branch shown in the branch breakdown, the pass rate is
\* passed / (passed + failed + errored) over the builds of that branch, and
\* the count is the total number of that branch's builds.
C10_BranchBreakdown ==
    insightsReturned =>
        \A i \in 1..Len(response.report.branches) :
            LET line == response.report.branches[i]
                own  == ofBranch(line.branchName)
            IN  /\ line.total = Len(own)
                /\ showsRate(line.passRate, countIn(own, {"passed"}),
                             countIn(own, {"passed", "failed", "errored"}))

\* Branch main with one passed and one canceled build beside another branch:
\* the breakdown shows main at 50.0.
C10_Witness ==
    /\ insightsReturned
    /\ Len(ofBranch("main")) = 2
    /\ countIn(ofBranch("main"), {"passed"}) = 1
    /\ countIn(ofBranch("main"), {"canceled"}) = 1
    /\ \E i \in 1..Len(response.report.branches) :
           /\ response.report.branches[i].branchName = "main"
           /\ response.report.branches[i].total = 2
           /\ response.report.branches[i].passRate = 500

(***************************************************************************)
(* Properties of travis_getOptimizationRecommendations.                    *)
(***************************************************************************)
\* The handler has passed the join and returned.
joined == pc = "returned" /\ jobs # <<>>

logFailed(j) == ~travis(upLog[j]).ok
detailFailed(j) == travis(upLog[j]).ok /\ ~travis(upJob[j]).ok

\* The value of job j's callback (lines 878-894) on the answers to its own
\* two requests.
ownResult(j) ==
    LET log        == travis(upLog[j])
        jobDetails == travis(upJob[j])
    IN  IF ~log.ok THEN catchResult(jobs[j], log.message)
        ELSE IF ~jobDetails.ok THEN catchResult(jobs[j], jobDetails.message)
        ELSE tryResult(jobs[j], log.value, jobDetails.value)

\* The findings the report holds for job j.
reportedFor(j) ==
    SelectSeq(response.report.findings, LAMBDA f : f.jobNumber = jobs[j].number)

\* The requests for `path` of job j sent so far.
sent(path, j) ==
    {i \in 1..Len(requests) : requests[i].path = path /\ requests[i].job = jobs[j].id}

\* C2: if fetching one job's log fails, the invocation still returns a
\* report and no error; that job's log is replaced by the literal error
\* string, and every other job is analysed as it is when no fetch of another
\* job fails, that is on the answers to its own requests.
C2_FailedLogFetch ==
    (joined /\ \E j \in 1..Len(jobs) : logFailed(j)) =>
        /\ ~response.isError
        /\ response.kind = "optimization"
        /\ response.report.analyzed = Len(jobs)
        /\ \A j \in 1..Len(jobs) :
              IF logFailed(j)
              THEN /\ jobLogs[j].log =
                          [t |-> "string",
                           v |-> "Error fetching log: Error: Travis API error "
                                 \o ToString(upLog[j].status) \o ": " \o upLog[j].text]
                   /\ jobLogs[j].duration = <<>>
              ELSE /\ jobLogs[j] = ownResult(j)
                   /\ reportedFor(j) = jobFindings(ownResult(j))

\* Two jobs: the log of the first is refused, the second is analysed and
\* has its findings in the report.
C2_Witness ==
    /\ joined
    /\ Len(jobs) = 2
    /\ logFailed(1)
    /\ ~logFailed(2) /\ ~detailFailed(2)
    /\ ~response.isError
    /\ reportedFor(2) # <<>>
    /\ jobLogs[2].duration = <<400>>

\* C3: a job whose log fetch failed contributes no finding of any category,
\* whatever the text of the upstream error in the substituted string.
C3_FailedLogNoFindings ==
    (joined /\ response.kind = "optimization") =>
        \A j \in 1..Len(jobs) : logFailed(j) => reportedFor(j) = <<>>

\* A job whose log request was answered 500 "Error downloading log from
\* archive" has a Caching finding in the report.
C3_Witness ==
    /\ joined
    /\ response.kind = "optimization"
    /\ \E j \in 1..Len(jobs) :
          /\ logFailed(j)
          /\ upLog[j].status = 500
          /\ reportedFor(j) = <<finding("Caching", jobs[j].number, 0)>>

\* C4: when a job's log fetch succeeds and its job-detail fetch fails, the
\* duration alone is unknown: the fetched log is analysed for findings and
\* the job is absent from the duration ranking.
C4_DetailFailureKeepsLog ==
    (joined /\ response.kind = "optimization") =>
        \A j \in 1..Len(jobs) :
            detailFailed(j) =>
                /\ jobLogs[j].log = travis(upLog[j]).value
                /\ jobLogs[j].duration = <<>>
                /\ reportedFor(j) =
                       jobFindings([jobNumber |-> jobs[j].number,
                                    log |-> travis(upLog[j]).value])
                /\ \A i \in 1..Len(response.report.slowest) :
                       response.report.slowest[i].jobNumber # jobs[j].number

\* A job whose log holds "npm install" and whose detail request was refused:
\* the report has no finding for it.
C4_Witness ==
    /\ joined
    /\ response.kind = "optimization"
    /\ \E j \in 1..Len(jobs) :
          /\ detailFailed(j)
          /\ upLog[j].text = "$ npm install\nadded 10 packages"
          /\ reportedFor(j) = <<>>
          /\ jobLogs[j].log.v # upLog[j].text

\* C5: the report is the same for every order in which the fetches of the
\* jobs complete: the results are folded in the order of the job list, and
\* the result of a job depends on the answers to its own requests alone.
C5_OrderIndependent ==
    joined =>
        /\ jobLogs = [j \in 1..Len(jobs) |-> ownResult(j)]
        /\ \A j \in 1..Len(jobs) : jobLogs[j].jobId = jobs[j].id
        /\ response = optimizationResponse(jobs, [j \in 1..Len(jobs) |-> ownResult(j)])

\* Two jobs with different findings, the second settled before the first.
C5_Witness ==
    /\ joined
    /\ Len(jobs) = 2
    /\ settledOrder = <<2, 1>>
    /\ reportedFor(1) # <<>>
    /\ reportedFor(2) # <<>>
    /\ jobFindings(ownResult(1)) # jobFindings([ownResult(2) EXCEPT !.jobNumber = jobs[1].number])

\* C6: a log is requested for every job of the build, once, before any
\* answer is handled; the handler passes the join only when the promise of
\* every job has settled; and the failure of one job's fetch leaves the
\* fetches of the other jobs to run: at the join every job whose log was
\* delivered has had its details requested.
C6_JoinAfterAllSettled ==
    /\ (pc = "awaitJobs" \/ joined) =>
           \A j \in 1..Len(jobs) : Cardinality(sent("log", j)) = 1
    /\ joined =>
           \A j \in 1..Len(jobs) :
               /\ jobPc[j] = "settled"
               /\ jobLogs[j].log.t # "pending"
               /\ ~logFailed(j) => Cardinality(sent("job", j)) = 1
    /\ response.kind = "optimization" => joined

\* Two jobs: the log of the first was refused before the second was
\* answered, and the second ran on to its details before the join.
C6_Witness ==
    /\ joined
    /\ Len(jobs) = 2
    /\ logFailed(1)
    /\ settledOrder = <<1, 2>>
    /\ ~logFailed(2) /\ ~detailFailed(2)
    /\ Cardinality(sent("job", 2)) = 1
    /\ response.kind = "optimization"

\* The branch names of the list analysed, a missing name being "unknown".
branchNames == {branchNameOf(analysed[i]) : i \in 1..Len(analysed)}

\* C11: the branch breakdown is emitted iff no branch filter was supplied
\* and more than one distinct branch name (a missing name counting as
\* "unknown") appears in the build list; when emitted it lists at most 5
\* branches, those with the highest build counts, in descending order of
\* build count.
C11_BreakdownEmitted ==
    insightsReturned =>
        LET shown == response.report.branches
            names == {shown[i].branchName : i \in 1..Len(shown)}
        IN  /\ shown # <<>> <=>
                   (call.args.branch = undefined /\ Cardinality(branchNames) > 1)
            /\ Len(shown) <= 5
            /\ shown # <<>> => Len(shown) = min(5, Cardinality(branchNames))
            /\ names \subseteq branchNames
            /\ Cardinality(names) = Len(shown)
            /\ \A i \in 1..Len(shown) : \A j \in i..Len(shown) :
                   shown[i].total >= shown[j].total
            /\ \A i \in 1..Len(shown) : \A name \in branchNames \ names :
                   shown[i].total >= Len(ofBranch(name))

\* No branch filter and builds on the branches main and constructor: the
\* report has no branch breakdown.
C11_Witness ==
    /\ insightsReturned
    /\ call.args.branch = undefined
    /\ branchNames = {"main", "constructor"}
    /\ response.report.branches = <<>>

\* The positions of the builds analysed whose duration is present and
\* positive, and the sum of the durations at a set of positions.
timed == {i \in 1..Len(analysed) :
            analysed[i].duration # <<>> /\ analysed[i].duration[1] > 0}

RECURSIVE sumAt(_)
sumAt(positions) ==
    IF positions = {} THEN 0
    ELSE LET i == CHOOSE p \in positions : TRUE
         IN  analysed[i].duration[1] + sumAt(positions \ {i})

\* C12: the duration statistics are those of the builds whose duration is
\* present and positive: the average is their arithmetic mean, the median
\* the element at index floor(n/2) of their ascending order, the minimum
\* and maximum its first and last elements; when no build has a positive
\* duration the statistics are zero, the duration section is left out and
\* the invocation does not fail.
C12_DurationStatistics ==
    insightsReturned =>
        LET n      == Cardinality(timed)
            report == response.report
            below(d)   == Cardinality({i \in timed : analysed[i].duration[1] < d})
            upTo(d)    == Cardinality({i \in timed : analysed[i].duration[1] <= d})
        IN  /\ ~response.isError
            /\ report.hasDurations <=> n > 0
            /\ n = 0 => /\ report.avgDuration = fzero
                        /\ report.medianDuration = 0
                        /\ report.minDuration = 0
                        /\ report.maxDuration = 0
            /\ n > 0 => /\ report.avgDuration = fdivNat(sumAt(timed), n)
                        /\ below(report.medianDuration) <= n \div 2
                        /\ upTo(report.medianDuration) >= (n \div 2) + 1
                        /\ below(report.minDuration) = 0
                        /\ upTo(report.minDuration) > 0
                        /\ upTo(report.maxDuration) = n
                        /\ below(report.maxDuration) < n

\* Two builds with different positive durations beside a build of duration
\* 0: the median is the larger of the two.
C12_Witness ==
    /\ insightsReturned
    /\ Cardinality(timed) = 2
    /\ \E i \in 1..Len(analysed) : analysed[i].duration = <<0>>
    /\ response.report.minDuration < response.report.maxDuration
    /\ response.report.medianDuration = response.report.maxDuration
    /\ response.report.hasDurations

\* A number that is a whole number.
isWhole(x) == x.mant = <<>> \/ x.exp >= 0 \/ shr(x.mant, -x.exp).r = <<>>

\* C13: every duration shown (average, median, fastest, slowest) is
\* rendered as minutes and seconds by integer division and modulo by 60: the
\* minutes are a whole number, the seconds a whole number in 0..59, and
\* minutes * 60 + seconds is the duration rendered.
C13_MinutesSeconds ==
    insightsReturned =>
        \A i \in 1..Len(response.report.durationLines) :
            LET line == response.report.durationLines[i]
            IN  /\ line.minutes >= 0
                /\ isWhole(line.seconds)
                /\ fge(line.seconds, fzero)
                /\ fle(line.seconds, fromInt(59))
                /\ fadd(fromInt(60 * line.minutes), line.seconds) = line.duration

\* Two builds of 45 and 90 seconds: the average is rendered "1m 7.5s".
C13_Witness ==
    /\ insightsReturned
    /\ Cardinality(timed) = 2
    /\ sumAt(timed) = 135
    /\ response.report.durationLines[1].label = "Average"
    /\ response.report.durationLines[1].minutes = 1
    /\ response.report.durationLines[1].seconds = fdivNat(15, 2)

\* The overall pass rate of the list analysed is at least t percent.
rateAtLeast(t) ==
    LET passed    == countIn(analysed, {"passed"})
        completed == countIn(analysed, {"passed", "failed", "errored"})
    IN  completed > 0 /\ 100 * passed >= t * completed

exceedsBy10(overall, recent) ==
    overall[1] * recent[2] - recent[1] * overall[2] > 10 * recent[2] * overall[2]

\* C15: the three additional warnings are emitted independently, each
\* exactly when its own condition holds: "recent builds failing more" when
\* the recent pass rate is more than 10 points below the overall pass rate,
\* "some builds significantly slower" when the maximum duration exceeds 1.5
\* times the average duration, "more failures than passes" when the failed
\* count exceeds the passed count.  The two rates are those of the report:
\* the recent one over the passed and failed builds of the recent window,
\* the overall one over the passed, failed and errored builds of the list.
C15_Warnings ==
    insightsReturned =>
        LET recent  == exactRate(countIn(firstTen, {"passed"}),
                                 countIn(firstTen, {"passed", "failed"}))
            overall == exactRate(countIn(analysed, {"passed"}),
                                 countIn(analysed, {"passed", "failed", "errored"}))
            n       == Cardinality(timed)
            slower  == \E i \in timed : 2 * n * analysed[i].duration[1] > 3 * sumAt(timed)
        IN  /\ "recent builds failing more" \in response.report.warnings
                <=> exceedsBy10(overall, recent)
            /\ "some builds significantly slower" \in response.report.warnings
                <=> slower
            /\ "more failures than passes" \in response.report.warnings
                <=> countIn(analysed, {"failed"}) > countIn(analysed, {"passed"})

\* One of the six completed builds of the recent window passed and four of
\* all fifteen: the rates shown are 16.7 and 26.7, and the report warns that
\* recent builds are failing more.
C15_Witness ==
    /\ insightsReturned
    /\ countIn(firstTen, {"passed"}) = 1
    /\ countIn(firstTen, {"passed", "failed"}) = 6
    /\ countIn(analysed, {"passed"}) = 4
    /\ countIn(analysed, {"passed", "failed", "errored"}) = 15
    /\ response.report.recentShown = 167
    /\ response.report.passRateShown = 267
    /\ "recent builds failing more" \in response.report.warnings

\* The positions of the builds of the list analysed that failed or errored.
failing == {i \in 1..Len(analysed) : analysed[i].state \in {"failed", "errored"}}

occurring == {stateOf(analysed[i]) : i \in 1..Len(analysed)}

\* C17: the report contains the total build count and, for every lifecycle
\* state that occurs in the list analysed (queued, started, canceled and
\* unrecognised states included), the number of builds in that state.
C17_CountsPerState ==
    insightsReturned =>
        /\ response.report.totalBuilds = Len(analysed)
        /\ \A state \in occurring :
               <<state, Cardinality({i \in 1..Len(analysed) : stateOf(analysed[i]) = state})>>
                   \in response.report.stateLines

\* A started build is in the list analysed and the report has a line for
\* the canceled builds beside it.
C17_Witness ==
    /\ insightsReturned
    /\ "started" \in occurring
    /\ <<"canceled", 1>> \in response.report.stateLines

\* The cap on the number of builds analysed: 50 when no limit is supplied,
\* the supplied limit otherwise, at most 100.
configuredCap ==
    IF call.args.limit = <<>> THEN DefaultLimit ELSE min(call.args.limit[1], MaxLimit)

\* C18: the number of builds that travis_getBuildInsights analyses never
\* exceeds the configured cap: 50 when no limit is supplied, the supplied
\* limit otherwise, and never more than 100 for any supplied limit.
C18_AnalysedWithinCap ==
    (pc = "returned" /\ requests # <<>>) =>
        /\ Len(analysed) <= configuredCap
        /\ response.kind = "insights" => response.report.totalBuilds <= configuredCap

\* A limit of 0 is supplied and the report analyses builds.
C18_Witness ==
    /\ insightsReturned
    /\ call.args.limit = <<0>>
    /\ response.report.totalBuilds > 0

\* The call has returned after its first request to Travis was answered.
answered == pc = "returned" /\ requests # <<>>

insightsCalled == call.name = "travis_getBuildInsights"

optimizationCalled == call.name = "travis_getOptimizationRecommendations"

\* The answer of Travis to the first request of the call.
firstAnswer ==
    IF insightsCalled THEN travisBuilds(upBuilds, requests[1]) ELSE upBuild

succeeded(answer) == answer.status >= 200 /\ answer.status < 300

\* C19: empty results are not errors.  An empty build list makes
\* travis_getBuildInsights return normally with only a "no builds found"
\* message and no statistics; a build with no jobs makes
\* travis_getOptimizationRecommendations return normally with only a "no
\* jobs found" message and no findings.
C19_EmptyResults ==
    (answered /\ succeeded(firstAnswer)) =>
        /\ (insightsCalled /\ Len(analysed) = 0) =>
               /\ ~response.isError
               /\ response.text = "No builds found for repository"
               /\ response.report = <<>>
        /\ (optimizationCalled /\ Len(jobsOf(travis(upBuild).value)) = 0) =>
               /\ ~response.isError
               /\ response.text = "No jobs found for this build."
               /\ response.report = <<>>
               /\ Len(requests) = 1

\* The upstream list has builds, none of them on the branch asked for: the
\* list analysed is empty and the answer is the "no builds" message.
C19_Witness ==
    /\ answered
    /\ insightsCalled
    /\ upBuilds.status = 200
    /\ Len(upBuilds.builds) > 0
    /\ Len(analysed) = 0
    /\ response.kind = "no builds"

\* C20: when the upstream build-list fetch of travis_getBuildInsights or
\* the build fetch of travis_getOptimizationRecommendations fails, the
\* invocation ends there: no report or statistics are produced, no log is
\* requested, and the failure reaches the caller as a plain-text error
\* message only.
C20_UpstreamFailure ==
    (answered /\ ~succeeded(firstAnswer)) =>
        /\ response.isError
        /\ response.report = <<>>
        /\ response.text = "Error: Travis API error " \o ToString(firstAnswer.status)
                               \o ": " \o firstAnswer.text
        /\ Len(requests) = 1
        /\ jobLogs = <<>>

\* The build fetch of the optimization tool was answered 404.
C20_Witness ==
    /\ answered
    /\ optimizationCalled
    /\ upBuild.status = 404
    /\ response.text = "Error: Travis API error 404: not found"

\* The number of requests issued so far for a path and a job.
issued(path, id) ==
    Cardinality({k \in 1..Len(requests) : requests[k].path = path /\ requests[k].job = id})

\* C21: no fetch is retried.  Within one invocation the build list, the
\* build, and each job's log and job detail are requested at most once,
\* whether the request succeeds or fails.
C21_NoRetry ==
    /\ \A k, l \in 1..Len(requests) : k # l => requests[k] # requests[l]
    /\ Cardinality({k \in 1..Len(requests) : requests[k].path \in {"builds", "build"}}) <= 1
    /\ \A j \in 1..Len(jobs) :
           /\ issued("log", jobs[j].id) <= 1
           /\ issued("job", jobs[j].id) <= 1
    /\ Len(requests) <= 1 + 2 * Len(jobs)

\* The invocation has returned; the log request of one job failed and was
\* issued once, and the detail request of another job failed and was
\* issued once.
C21_Witness ==
    /\ pc = "returned"
    /\ \E j \in 1..Len(jobs) :
           /\ upLog[j].status = 500
           /\ issued("log", jobs[j].id) = 1
           /\ issued("job", jobs[j].id) = 0
    /\ \E j \in 1..Len(jobs) :
           /\ upLog[j].status = 200
           /\ upJob[j].status = 500
           /\ issued("log", jobs[j].id) = 1
           /\ issued("job", jobs[j].id) = 1

\* The handler has returned an optimization report.
optimizationReturned == pc = "returned" /\ response.kind = "optimization"

\* The text analysed for job j.
logOf(j) == jobLogs[j].log.v

\* The positions of a log where a word stands, letter case ignored.
standsAt(log, word) == {i \in 1..Len(log) : litAt(log, i, Len(log), word, TRUE)}

\* The categories of the findings the report holds for job j, in order.
categoriesFor(j) == [i \in 1..Len(reportedFor(j)) |-> reportedFor(j)[i].category]

\* The words of the trigger phrases other than "npm install".
OtherTriggerWords ==
    {"npm ci", "yarn install", "pip install", "bundle install", "cache",
     "downloading", "tsc", "typescript compiler", "webpack", "rollup", "vite",
     "mvn compile", "gradle build", "cargo build", "go build", "npm run build",
     "yarn build", "test", "finished in", "docker pull", "docker build",
     "setting up", "installing"}

\* C22: a job log that contains "npm install" and no other trigger phrase
\* yields exactly one finding, of category Dependency Installation, and no
\* finding of another category, however many lines contain the phrase.
C22_NpmInstallOnly ==
    optimizationReturned =>
        \A j \in 1..Len(jobs) :
            (/\ includes(logOf(j), 1, Len(logOf(j)), "npm install")
             /\ \A word \in OtherTriggerWords : standsAt(logOf(j), word) = {})
            => categoriesFor(j) = <<"Dependency Installation">>

\* A log with "npm install" on two of its lines and no other phrase, and
\* one finding for its job.
C22_Witness ==
    /\ optimizationReturned
    /\ \E j \in 1..Len(jobs) :
           /\ Cardinality(standsAt(logOf(j), "npm install")) = 2
           /\ \A word \in OtherTriggerWords : standsAt(logOf(j), word) = {}
           /\ categoriesFor(j) = <<"Dependency Installation">>

\* In a log, `first` stands before `second` with no line terminator from
\* the end of the one to the start of the other.
followedBy(log, first, second) ==
    \E i \in standsAt(log, first) : \E j \in standsAt(log, second) :
        /\ j >= i + Len(first)
        /\ \A k \in (i + Len(first))..(j - 1) : charAt(log, k) \notin {"\n", "\r"}

\* A line of the log has a phrase of a cache miss, of a cache hit.
cacheMissIn(log) ==
    \/ standsAt(log, "downloading") # {}
    \/ followedBy(log, "cache", "miss")
    \/ followedBy(log, "cache", "not found")

cacheHitIn(log) ==
    \/ standsAt(log, "using cached") # {}
    \/ followedBy(log, "cache", "hit")
    \/ followedBy(log, "cache", "restored")

\* C23: a job yields a Caching finding exactly when its log has a line
\* matching the cache-miss pattern and no line anywhere in the same log
\* matching the cache-hit pattern; a log with a cache-hit phrase added to
\* it has no Caching finding.
C23_Caching ==
    optimizationReturned =>
        \A j \in 1..Len(jobs) :
            /\ (\E i \in 1..Len(categoriesFor(j)) : categoriesFor(j)[i] = "Caching")
                   <=> (cacheMissIn(logOf(j)) /\ ~cacheHitIn(logOf(j)))
            /\ cacheHitIn(logOf(j)) =>
                   \A i \in 1..Len(categoriesFor(j)) : categoriesFor(j)[i] # "Caching"

\* A log whose first line has a cache miss and whose second line has a
\* cache hit: the job has no Caching finding.
C23_Witness ==
    /\ optimizationReturned
    /\ \E j \in 1..Len(jobs) :
           /\ logOf(j) = "cache miss for key\nCache HIT"
           /\ \A i \in 1..Len(categoriesFor(j)) : categoriesFor(j)[i] # "Caching"

\* The number of lines of a log that hold one of the setup phrases: the
\* line feeds at or after which, up to the next line feed, a phrase stands.
setupLines(log) ==
    LET feeds   == {0} \cup {k \in 1..Len(log) : charAt(log, k) = "\n"}
        next(f) == IF \E k \in feeds : k > f
                   THEN CHOOSE k \in feeds : k > f /\ \A m \in feeds : m > f => k <= m
                   ELSE Len(log) + 1
        holds(f, phrase) ==
            \E i \in (f + 1)..(next(f) - Len(phrase)) :
                SubSeq(log, i, i + Len(phrase) - 1) = phrase
    IN  Cardinality({f \in feeds :
                       \E phrase \in {"Setting up", "Installing", "Downloading"} :
                           holds(f, phrase)})

\* The Setup Overhead findings the report holds for job j.
setupFindings(j) == SelectSeq(reportedFor(j), LAMBDA f : f.category = "Setup Overhead")

\* C24: a job yields a Setup Overhead finding exactly when the number of
\* its log lines containing "Setting up", "Installing" or "Downloading" is
\* strictly greater than 10 (10 lines give no finding, 11 give one), and
\* the finding names that number of lines.
C24_SetupOverhead ==
    optimizationReturned =>
        \A j \in 1..Len(jobs) :
            /\ setupFindings(j) # <<>> <=> setupLines(logOf(j)) > 10
            /\ \A i \in 1..Len(setupFindings(j)) :
                   setupFindings(j)[i].steps = setupLines(logOf(j))

\* Eleven lines hold a setup phrase, one of them two phrases, beside a
\* line with a phrase in lower case: the finding names 11 steps.
C24_Witness ==
    /\ optimizationReturned
    /\ \E j \in 1..Len(jobs) :
           /\ logOf(j) = setupLog(4, 6, 1, 1)
           /\ Len(setupFindings(j)) = 1
           /\ setupFindings(j)[1].steps = 11

\* The jobs whose record has a known positive duration.
timedJobs == {j \in 1..Len(jobs) : jobLogs[j].duration # <<>> /\ jobLogs[j].duration[1] > 0}

\* The job a line of the Slowest jobs list names.
listedJob(line) == CHOOSE j \in 1..Len(jobs) : jobs[j].number = line.jobNumber

\* C25: the Slowest jobs list holds only jobs with a known positive
\* duration, sorted by duration in descending order and truncated to the 3
\* slowest (durations 400, 100, 200 give the order 400, 200, 100); the
\* over-5-minutes warning is present exactly when the duration of the
\* slowest listed job exceeds 300 seconds.
C25_SlowestJobs ==
    optimizationReturned =>
        LET slowest == response.report.slowest
            seconds(line) == 60 * line.minutes + line.seconds
        IN  /\ Len(slowest) = min(3, Cardinality(timedJobs))
            /\ \A i \in 1..Len(slowest) :
                   /\ \E j \in timedJobs : jobs[j].number = slowest[i].jobNumber
                   /\ slowest[i].seconds \in 0..59
                   /\ seconds(slowest[i]) = jobLogs[listedJob(slowest[i])].duration[1]
            /\ \A i, k \in 1..Len(slowest) :
                   /\ i # k => slowest[i].jobNumber # slowest[k].jobNumber
                   /\ i < k => seconds(slowest[i]) >= seconds(slowest[k])
            /\ \A j \in timedJobs : \A i \in 1..Len(slowest) :
                   \/ \E k \in 1..Len(slowest) : slowest[k].jobNumber = jobs[j].number
                   \/ jobLogs[j].duration[1] <= seconds(slowest[i])
            /\ response.report.slowWarning
                   <=> (slowest # <<>> /\ seconds(slowest[1]) > 300)

\* Four jobs with a positive duration, the first faster than the second:
\* three are listed and the warning is present.
C25_Witness ==
    /\ optimizationReturned
    /\ Cardinality(timedJobs) = 4
    /\ jobLogs[1].duration[1] < jobLogs[2].duration[1]
    /\ Len(response.report.slowest) = 3
    /\ response.report.slowWarning

\* What the request being served is answered with when nothing but its own
\* arguments and the answers of Travis to its own requests is looked at.
ownResponse ==
    IF call.name = "travis_getBuildInsights"
    THEN IF call.args.repo = undefined
         THEN errorResponse("Parameter 'repo' is required")
         ELSE insightsResponse(call.args,
                  travis(travisBuilds(upBuilds, [limit |-> limitOf(call.args),
                                                 branch |-> call.args.branch])))
    ELSE IF call.name = "travis_getOptimizationRecommendations"
    THEN IF call.args.buildId \in {<<>>, <<0>>}
         THEN errorResponse("Parameter 'buildId' is required")
         ELSE LET buildData == travis(upBuild)
                  found     == jobsOf(buildData.value)
                  value(j)  ==
                      LET log        == travis(upLog[j])
                          jobDetails == travis(upJob[j])
                      IN  IF ~log.ok THEN catchResult(found[j], log.message)
                          ELSE IF ~jobDetails.ok
                               THEN catchResult(found[j], jobDetails.message)
                               ELSE tryResult(found[j], log.value, jobDetails.value)
              IN  IF ~buildData.ok THEN errorResponse(buildData.message)
                  ELSE IF found = <<>>
                       THEN textResponse("no jobs", "No jobs found for this build.", <<>>)
                  ELSE IF \E j \in 1..Len(found) : value(j).log.t # "string"
                       THEN errorResponse("log.split is not a function")
                       ELSE textResponse("optimization", "Build Optimization Recommendations",
                                optimizationReport(found, [j \in 1..Len(found) |-> value(j)]))
    ELSE errorResponse("Unknown tool: " \o call.name)

Categories ==
    {"Dependency Installation", "Caching", "Build Process", "Testing", "Docker",
     "Setup Overhead"}

\* The number of findings of a category the report holds for job j.
findingsFor(j, category) ==
    Cardinality({i \in 1..Len(categoriesFor(j)) : categoriesFor(j)[i] = category})

\* C27: each job contributes at most one finding per category, however
\* many lines or patterns match, while several categories may fire for the
\* same job; hence the count of a category never exceeds the number of
\* jobs.
C27_OncePerJobAndCategory ==
    optimizationReturned =>
        /\ \A i \in 1..Len(response.report.findings) :
               /\ response.report.findings[i].category \in Categories
               /\ \E j \in 1..Len(jobs) :
                      response.report.findings[i].jobNumber = jobs[j].number
        /\ \A j \in 1..Len(jobs) : \A category \in Categories :
               findingsFor(j, category) <= 1
        /\ \A i \in 1..Len(response.report.keyFindings) :
               response.report.keyFindings[i].count <= Len(jobs)

\* Two jobs whose logs match two compilation patterns and hold two install
\* lines: each has one Build Process and one Dependency Installation
\* finding, and the count of Build Process is 2.
C27_Witness ==
    /\ optimizationReturned
    /\ Len(jobs) = 2
    /\ logOf(1) = "$ npm install\n$ tsc -p .\nwebpack 5 compiled"
    /\ logOf(2) = "$ npm install\n$ tsc -p .\nwebpack 5 compiled"
    /\ categoriesFor(1) = <<"Dependency Installation", "Build Process">>
    /\ \E i \in 1..Len(response.report.keyFindings) :
           response.report.keyFindings[i] = [category |-> "Build Process", count |-> 2]

\* The positions of the findings of a category among all the findings.
foundAt(category) ==
    {i \in 1..Len(response.report.findings) :
       response.report.findings[i].category = category}

\* The least element of a non-empty set of positions.
firstOf(positions) == CHOOSE p \in positions : \A q \in positions : p <= q

\* C28: for every category the count tallied in Key Findings is the number
\* of findings of that category over all jobs; the groups of Detailed
\* Analysis stand in the order in which the categories were first seen;
\* and the remediation block of a category is emitted once exactly when
\* that count is at least 1, never once per occurrence.
C28_TallyGroupsRemediation ==
    optimizationReturned =>
        LET report == response.report
            times(seq, category) ==
                Cardinality({i \in 1..Len(seq) : seq[i] = category})
            keyed   == [i \in 1..Len(report.keyFindings) |-> report.keyFindings[i].category]
            groups  == [i \in 1..Len(report.grouped) |-> report.grouped[i].category]
        IN  /\ \A category \in Categories :
                   LET n == Cardinality(foundAt(category))
                   IN  /\ times(keyed, category) = IF n > 0 THEN 1 ELSE 0
                       /\ times(groups, category) = IF n > 0 THEN 1 ELSE 0
                       /\ times(report.remediation, category) = IF n >= 1 THEN 1 ELSE 0
            /\ \A i \in 1..Len(keyed) :
                   report.keyFindings[i].count = Cardinality(foundAt(keyed[i]))
            /\ \A i \in 1..Len(groups) :
                   /\ Len(report.grouped[i].details) = Cardinality(foundAt(groups[i]))
                   /\ \A k \in 1..Len(report.grouped[i].details) :
                          report.grouped[i].details[k].category = groups[i]
            /\ \A i, k \in 1..Len(groups) :
                   i < k => firstOf(foundAt(groups[i])) < firstOf(foundAt(groups[k]))
            /\ \A i, k \in 1..Len(keyed) :
                   i < k => firstOf(foundAt(keyed[i])) < firstOf(foundAt(keyed[k]))

\* The first job has Testing and Docker findings, the second a Dependency
\* Installation and a Docker finding: the groups stand in the order
\* Testing, Docker, Dependency Installation, Docker is counted twice and
\* its remediation block is emitted once.
C28_Witness ==
    /\ optimizationReturned
    /\ Len(response.report.grouped) = 3
    /\ response.report.grouped[1].category = "Testing"
    /\ response.report.grouped[2].category = "Docker"
    /\ response.report.grouped[3].category = "Dependency Installation"
    /\ response.report.keyFindings[2] = [category |-> "Docker", count |-> 2]
    /\ Cardinality({i \in 1..Len(response.report.remediation) :
                      response.report.remediation[i] = "Docker"}) = 1

\* C29: provided every upstream fetch is eventually answered, every
\* invocation eventually returns, with exactly one response, a report or a
\* plain-text error, and the handler does not throw, an unknown tool name
\* included: the response is set by the step that returns and by no other.
C29_EventuallyReturns ==
    /\ (pc # "returned") ~> (pc = "returned")
    /\ [][/\ (pc # "returned" /\ pc' = "returned")
              => /\ response'.kind \in {"insights", "no builds", "optimization",
                                        "no jobs", "error"}
                 /\ response'.isError <=> response'.kind = "error"
          /\ response' # response => (pc # "returned" /\ pc' = "returned")]_vars

\* A call of a name that is no tool has returned an error text.
C29_Witness ==
    /\ pc = "returned"
    /\ call.name = "travis_noSuchTool"
    /\ response = errorResponse("Unknown tool: travis_noSuchTool")

\* C30: in every build-insight report the warning that recent builds are
\* failing more often (recent pass rate below the overall one less 10)
\* appears only when the trend label of the same report is "Declining"
\* (recent pass rate below the overall one less 5); it never stands beside
\* "Stable" or "Improving".
C30_WarningOnlyWhenDeclining ==
    insightsReturned =>
        ("recent builds failing more" \in response.report.warnings
            => response.report.trend = "Declining")

\* A report that carries the warning under a declining trend: one of the six
\* completed builds of the recent window passed, four of all fifteen.
C30_Witness ==
    /\ insightsReturned
    /\ "recent builds failing more" \in response.report.warnings
    /\ response.report.trend = "Declining"
    /\ response.report.recentShown = 167
    /\ response.report.passRateShown = 267

====
